---- MODULE Spec2Model ----
(***************************************************************************)
(* Verification model of the dai_assistant core:                           *)
(*   src/src/dependency_graph/executor.py  (DependencyGraphExecutor)       *)
(*   src/src/error_handling/handler.py     (error taxonomy, retry,         *)
(*                                          ErrorHandler)                  *)
(*   src/src/llm_connector/provider_factory.py (LLMProviderFactory)        *)
(*                                                                         *)
(* The executor is modelled as the asyncio program it is: add_task builds  *)
(* the insertion-ordered task dictionary, execute() is a coroutine that    *)
(* suspends only in "await asyncio.gather", and every                      *)
(* _execute_task coroutine of a batch is an event-loop task of its own     *)
(* that starts (first step, in batch order), then finishes by returning    *)
(* or raising at some later step of the loop.                              *)
(***************************************************************************)
EXTENDS Integers, Sequences, FiniteSets, Bags, TLC

\* ------------------------------------------------------------------ bounds

\* Largest number of tasks declared with add_task.
MaxTasks == 3
\* Largest number of dependency edges declared in one graph.
MaxEdges == 2
\* Largest max_concurrent handed to execute (0 .. MaxConc).
MaxConc == 2
\* Largest number of execute() calls made on one executor.
MaxRuns == 2
\* Largest number of add_task calls made on an id already declared or after
\* execute() was called.
MaxLate == 1

\* Largest max_attempts handed to retry (-1 .. MaxAttempts).
MaxAttempts == 3
\* Largest number of register_handler / register_fallback calls on one
\* ErrorHandler.
MaxRegistrations == 2

\* Largest number of register_provider calls on LLMProviderFactory.
MaxProviderRegistrations == 1

\* Ids handed to add_task, in declaration order.
IdPool == <<"A", "B", "C", "D", "E">>
TaskIds == {IdPool[i] : i \in 1..MaxTasks}
\* The rounds recorded in the launch history (execute with max_concurrent = 0
\* spins without end; the history stops growing at this length).
MaxRounds == MaxTasks + 1

\* The value the operation of task t returns when it succeeds, and the value
\* a caller pre-declares.
OpResult(t) == "out_" \o t
PreValue == "pre"

\* ------------------------------------------------------------ error taxonomy

\* class -> base class (handler.py 28-74; RuntimeError is Python's builtin).
BaseClass ==
    [ DAIError |-> "Exception",
      LLMError |-> "DAIError",
      TokenLimitError |-> "LLMError",
      LLMTimeoutError |-> "LLMError",
      InvalidOutputError |-> "DAIError",
      AgentExecutionError |-> "DAIError",
      UserInterruptError |-> "DAIError",
      ConfigurationError |-> "DAIError",
      DependencyError |-> "DAIError",
      RuntimeError |-> "Exception",
      KeyError |-> "Exception",
      Exception |-> "Exception" ]

RECURSIVE IsSubclass(_, _)
\* issubclass(cls, base) along the single-inheritance chain.
IsSubclass(cls, base) ==
    IF cls = base THEN TRUE
    ELSE IF cls = "Exception" THEN FALSE
    ELSE IsSubclass(BaseClass[cls], base)

\* isinstance(error, error_type)
IsInstance(error, error_type) == IsSubclass(error.type, error_type)

\* The error kinds an injected operation raises in this model.
OpErrorTypes == {"AgentExecutionError"}

NoError == [type |-> "None", message |-> ""]
\* RuntimeError("Deadlock detected in dependency graph"), executor.py 119.
DeadlockError == [type |-> "RuntimeError", message |-> "Deadlock detected in dependency graph"]
\* The exception the operation of task t raises.
OpError(ty, t) == [type |-> ty, message |-> t]
\* self.results[dep_id] of an id that has no stored result, executor.py 88.
MissingResult(dep_id) == [type |-> "KeyError", message |-> dep_id]

\* ------------------------------------------------------------------- state

VARIABLES
    tasks,            \* self.tasks: the insertion-ordered dict, as a sequence of AgentTask
    results,          \* self.results: agent_id -> result
    pc,               \* execute(): "idle" | "gather" (suspended in await) | "returned" | "raised"
    max_concurrent,   \* execute()'s argument
    completed_tasks,  \* execute()'s local set
    batch,            \* the coroutines handed to asyncio.gather, in order
    started,          \* how many of them have run their first step
    status,           \* agent_id -> position of its _execute_task coroutine in this run
    received,         \* agent_id -> the kwargs its operation was called with in this run
    gather_exc,       \* the first exception set on the gather future (NoError: none)
    raised,           \* the exception execute() raised to its caller (NoError: none)
    returned,         \* the mapping execute() returned to its caller
    batches,          \* history: the batches launched by this run, one per round
    runs,             \* number of execute() calls so far
    orphans,          \* bag of ids: the coroutines of earlier calls still suspended in their operation
    late              \* history: number of add_task calls on a declared id or after an execute() call

executor_vars ==
    <<tasks, results, pc, max_concurrent, completed_tasks, batch, started,
      status, received, gather_exc, raised, returned, batches, runs,
      orphans, late>>

\* The retry decorator of handler.py 214-273 and one call of the wrapper it
\* returns.
VARIABLES
    retry_pc,         \* "undecorated" | "decorated" | "calling" (inside func) |
                      \* "sleeping" | "returned" | "raised"
    max_attempts,     \* retry()'s argument
    backoff_factor,   \* retry()'s argument, a rational <<numerator, denominator>>
    exceptions,       \* the exception classes the wrapper catches
    exceptions_given, \* FALSE when retry() was called with exceptions=None
    is_coroutine,     \* asyncio.iscoroutinefunction(func): async_wrapper or sync_wrapper
    attempt,          \* the wrapper's loop variable
    last_exception,   \* the wrapper's local
    invocations,      \* history: number of calls of func
    failures,         \* history: the exceptions func raised, in order
    waits,            \* history: the wait_time of every sleep, in order
    retry_returned,   \* the value the wrapper returned
    retry_raised      \* the exception the wrapper raised

retry_vars ==
    <<retry_pc, max_attempts, backoff_factor, exceptions, exceptions_given,
      is_coroutine, attempt, last_exception, invocations, failures, waits,
      retry_returned, retry_raised>>

\* One ErrorHandler object (handler.py 76-211).
VARIABLES
    error_registry,    \* self.error_registry, insertion-ordered: sequence of entries
    fallback_registry, \* self.fallback_registry, likewise
    last_error,        \* self.last_error
    handler_pc,        \* "ready" | "exited" (sys.exit was called)
    called,            \* the last handle/fallback call: [op, error]
    invoked,           \* the function that call dispatched to
    outcome,           \* the value that call returned
    registrations      \* number of register_handler / register_fallback calls made

handler_vars ==
    <<error_registry, fallback_registry, last_error, handler_pc, called,
      invoked, outcome, registrations>>

\* The class LLMProviderFactory (provider_factory.py 8-120).
VARIABLES
    _providers,             \* cls._providers: name -> provider class
    _supported_models,      \* cls._supported_models: name -> set of models
    validated,              \* the last validate_model call and what it returned
    provider_registrations  \* number of register_provider calls made

factory_vars == <<_providers, _supported_models, validated, provider_registrations>>

\* A caller of DependencyGraphExecutor.visualize (executor.py 133-168).
VARIABLES
    visualized,        \* what the last call of visualize() returned
    visualized_at      \* history: len(self.tasks) at that call

visualize_vars == <<visualized, visualized_at>>

\* Two callers whose calls of execute() on one executor overlap: each call has
\* its own frame of execute() (executor.py 101-131); self.tasks and
\* self.results are the executor's.
VARIABLES
    calls,             \* caller -> the frame of its call of execute()
    stored_by          \* history: agent_id -> the caller whose coroutine wrote self.results[agent_id] last

overlap_vars == <<calls, stored_by>>

\* What the actions of each component leave alone.
outside_executor == <<retry_vars, handler_vars, factory_vars, visualize_vars, overlap_vars>>
outside_retry == <<executor_vars, handler_vars, factory_vars, visualize_vars, overlap_vars>>
outside_handler == <<executor_vars, retry_vars, factory_vars, visualize_vars, overlap_vars>>
outside_factory == <<executor_vars, retry_vars, handler_vars, visualize_vars, overlap_vars>>
outside_visualize == <<executor_vars, retry_vars, handler_vars, factory_vars, overlap_vars>>
outside_overlap == <<retry_vars, handler_vars, factory_vars, visualize_vars>>

vars ==
    <<executor_vars, retry_vars, handler_vars, factory_vars, visualize_vars,
      overlap_vars>>

\* ------------------------------------------------------------ pure helpers

\* The empty dict.
EmptyDict == <<>>

\* d[k] = v on a dict (insert or overwrite).
DictSet(d, k, v) == (k :> v) @@ d

\* set(seq)
Range(seq) == {seq[i] : i \in 1..Len(seq)}

\* f"{dep_id}_result"
DepResultKey(dep_id) == dep_id \o "_result"

\* Faulty variants of the slice: no limit, and seq[:n-1].
TakeAll(seq, n) == seq
OffByOne_Take(seq, n) == SubSeq(seq, 1, IF n - 1 < Len(seq) THEN n - 1 ELSE Len(seq))
\* Faulty variant of the slice: at least one task is taken.
AtLeastOne_Take(seq, n) == SubSeq(seq, 1, IF n < 1 THEN (IF Len(seq) < 1 THEN Len(seq) ELSE 1)
                                          ELSE IF n < Len(seq) THEN n ELSE Len(seq))
\* seq[:n] for n >= 0
Take(seq, n) == SubSeq(seq, 1, IF n < Len(seq) THEN n ELSE Len(seq))

\* The keys of self.tasks, in insertion order.
TaskOrder(ts) == [i \in 1..Len(ts) |-> ts[i].agent_id]
DeclaredIds(ts) == {ts[i].agent_id : i \in 1..Len(ts)}
\* self.tasks[task_id]
TaskOf(ts, task_id) == ts[CHOOSE i \in 1..Len(ts) : ts[i].agent_id = task_id]

\* AgentTask(agent_id, depends_on or [], executor, args or (), kwargs or {})
AgentTask(agent_id, depends_on, kwargs) ==
    [agent_id |-> agent_id, depends_on |-> depends_on, args |-> <<>>,
     kwargs |-> kwargs, completed |-> FALSE]

\* The ids of ts[from..] that are ready, in insertion order.
RECURSIVE ReadyFrom(_, _, _)
ReadyFrom(ts, completed, from) ==
    IF from > Len(ts) THEN <<>>
    ELSE LET task == ts[from]
             rest == ReadyFrom(ts, completed, from + 1)
         IN  IF task.completed THEN rest
             ELSE IF \A dep \in Range(task.depends_on) : dep \in completed
                  THEN <<task.agent_id>> \o rest
                  ELSE rest

\* Faulty variants of _get_ready_tasks: one ignores depends_on, one treats an
\* undeclared dependency as satisfied.
IgnoreDeps_get_ready_tasks(ts, completed) ==
    SelectSeq(TaskOrder(ts), LAMBDA id : ~TaskOf(ts, id).completed)
UnknownOk_get_ready_tasks(ts, completed) ==
    SelectSeq(TaskOrder(ts),
              LAMBDA id : /\ ~TaskOf(ts, id).completed
                          /\ \A dep \in Range(TaskOf(ts, id).depends_on) :
                                dep \in completed \/ dep \notin DeclaredIds(ts))
\* Faulty variant: a completed task is not skipped.
NoSkip_get_ready_tasks(ts, completed) ==
    SelectSeq(TaskOrder(ts),
              LAMBDA id : \A dep \in Range(TaskOf(ts, id).depends_on) : dep \in completed)
\* Faulty variant: the ready tasks come in reverse insertion order.
Reversed_get_ready_tasks(ts, completed) ==
    LET ready == ReadyFrom(ts, completed, 1) IN
    [i \in 1..Len(ready) |-> ready[Len(ready) + 1 - i]]
\* Faulty variant: only the first ready task is returned.
FirstOnly_get_ready_tasks(ts, completed) ==
    SubSeq(ReadyFrom(ts, completed, 1), 1,
           IF ReadyFrom(ts, completed, 1) = <<>> THEN 0 ELSE 1)
\* _get_ready_tasks(completed_tasks), executor.py 64-75.
_get_ready_tasks(ts, completed) == ReadyFrom(ts, completed, 1)

\* The dependencies whose result _execute_task reads from self.results: those
\* whose key "<dep>_result" is not already in the task's kwargs (line 87).
LookedUp(task) == {d \in Range(task.depends_on) : DepResultKey(d) \notin DOMAIN task.kwargs}

\* The places of depends_on at which line 88 finds no stored result, and the
\* dependency the KeyError names: lines 85-88 walk the list in order, so it is
\* the first of them.
MissingAt(task, res) ==
    {i \in 1..Len(task.depends_on) : /\ task.depends_on[i] \in LookedUp(task)
                                     /\ task.depends_on[i] \notin DOMAIN res}
FirstMissing(task, res) ==
    task.depends_on[CHOOSE i \in MissingAt(task, res) :
                        \A j \in MissingAt(task, res) : i <= j]

\* Faulty variants: no dependency result is added; the dependency's result
\* overwrites a pre-declared key.
NoDeps_effective_kwargs(task, res) == task.kwargs
DepWins_effective_kwargs(task, res) ==
    [k \in {DepResultKey(d) : d \in Range(task.depends_on)} |->
        res[CHOOSE d \in Range(task.depends_on) : DepResultKey(d) = k]] @@ task.kwargs
\* The keyword arguments _execute_task builds (executor.py 82-88): a copy of
\* the task's kwargs, plus "<dep>_result" for each dependency whose key is absent.
effective_kwargs(task, res) ==
    task.kwargs @@
    [k \in {DepResultKey(d) : d \in LookedUp(task)} |->
        res[CHOOSE d \in LookedUp(task) : DepResultKey(d) = k]]

\* Faulty variant: completed_tasks is never updated.
Skipped_CompletedFlagged(ts) == {}
\* [task_id for task_id, task in self.tasks.items() if task.completed]
CompletedFlagged(ts) == {ts[i].agent_id : i \in {j \in 1..Len(ts) : ts[j].completed}}

\* ------------------------------------------- retry and ErrorHandler values

\* Python's None as a returned value.
None == [value |-> "None"]

\* The default exceptions of retry(), handler.py 224-225.
DefaultExceptions == {"LLMTimeoutError", "TokenLimitError"}

\* The state of the retry machinery before retry() is applied.
retry_init ==
    /\ retry_pc = "undecorated"
    /\ max_attempts = 0
    /\ backoff_factor = <<1, 1>>
    /\ exceptions = {}
    /\ exceptions_given = FALSE
    /\ is_coroutine = FALSE
    /\ attempt = 0
    /\ last_exception = NoError
    /\ invocations = 0
    /\ failures = <<>>
    /\ waits = <<>>
    /\ retry_returned = None
    /\ retry_raised = NoError

\* An entry of a registry: the class registered and the function under it.
Entry(error_type, fn) == [error_type |-> error_type, fn |-> fn]

\* _register_default_handlers, handler.py 90-101: the registries in
\* insertion order.
DefaultHandlers ==
    << Entry("TokenLimitError", "_handle_token_limit"),
       Entry("LLMTimeoutError", "_handle_timeout"),
       Entry("InvalidOutputError", "_handle_invalid_output"),
       Entry("UserInterruptError", "_handle_user_interrupt") >>
DefaultFallbacks ==
    << Entry("TokenLimitError", "_fallback_token_limit"),
       Entry("LLMTimeoutError", "_fallback_timeout"),
       Entry("InvalidOutputError", "_fallback_invalid_output") >>

NoCall == [op |-> "none", error |-> NoError]

\* ErrorHandler.__init__, handler.py 83-88.
__init__ ==
    /\ error_registry = DefaultHandlers
    /\ fallback_registry = DefaultFallbacks
    /\ last_error = NoError
    /\ handler_pc = "ready"
    /\ called = NoCall
    /\ invoked = ""
    /\ outcome = None
    /\ registrations = 0

\* No validate_model call was made yet.
NotValidated == [provider_name |-> "", model |-> "", result |-> FALSE]

\* The class attributes of LLMProviderFactory, provider_factory.py 11-33.
factory_init ==
    /\ _providers = [name \in {"openai"} |-> "OpenAIProvider"]
    /\ _supported_models =
          [name \in {"openai"} |-> {"gpt-4", "gpt-4-turbo", "gpt-3.5-turbo"}]
    /\ validated = NotValidated
    /\ provider_registrations = 0

\* No visualize() call was made yet.
NotVisualized == [header |-> "", lines |-> <<>>]

\* The two callers.
Callers == {1, 2}

\* The frame of a call of execute() that was not made yet.
NoCallYet ==
    [pc |-> "idle", max_concurrent |-> 0, completed_tasks |-> {},
     batch |-> <<>>, started |-> 0, status |-> <<>>, gather_exc |-> NoError,
     returned |-> <<>>, writers |-> <<>>, raised |-> NoError,
     overlapped |-> FALSE]

\* ------------------------------------------------------------------- Init

Init ==
    /\ tasks = <<>>
    /\ results = EmptyDict
    /\ pc = "idle"
    /\ max_concurrent = 0
    /\ completed_tasks = {}
    /\ batch = <<>>
    /\ started = 0
    /\ status = EmptyDict
    /\ received = EmptyDict
    /\ gather_exc = NoError
    /\ raised = NoError
    /\ returned = EmptyDict
    /\ batches = <<>>
    /\ runs = 0
    /\ orphans = EmptyBag
    /\ late = 0
    /\ retry_init
    /\ __init__
    /\ factory_init
    /\ visualized = NotVisualized
    /\ visualized_at = 0
    /\ calls = [c \in Callers |-> NoCallYet]
    /\ stored_by = EmptyDict

\* ---------------------------------------------------------------- add_task

\* The kwargs a caller declares: none, or one entry under "A_result", which is
\* the synthesized key of a dependency for the tasks that depend on A and an
\* ordinary key for the others.
KwargsChoices ==
    {EmptyDict, (DepResultKey(IdPool[1]) :> PreValue)}

\* How many declared tasks carry pre-declared kwargs.
PreDeclared(ts) == Cardinality({i \in 1..Len(ts) : ts[i].kwargs # EmptyDict})

\* How many dependency edges the declared tasks have.
RECURSIVE EdgeCount(_, _)
EdgeCount(ts, n) ==
    IF n = 0 THEN 0 ELSE Len(ts[n].depends_on) + EdgeCount(ts, n - 1)

\* The depends_on lists a caller passes: lists of ids without repetition, in
\* any order.
DepChoices ==
    {D \in UNION {[1..n -> TaskIds] : n \in 0..MaxEdges} :
        \A i, j \in 1..Len(D) : D[i] = D[j] => i = j}

\* self.tasks[agent_id] = task: an id already declared keeps its place in the
\* dict, a new id goes last.
TaskAssign(ts, task) ==
    IF \E i \in 1..Len(ts) : ts[i].agent_id = task.agent_id
    THEN [i \in 1..Len(ts) |-> IF ts[i].agent_id = task.agent_id THEN task ELSE ts[i]]
    ELSE Append(ts, task)

\* The ids declared in ts.
Declared(ts) == {ts[i].agent_id : i \in 1..Len(ts)}

\* A call of add_task outside the population of a new graph: the id is
\* declared already, or execute() was called before, by the one caller or by
\* one of the two whose calls overlap.
Late(agent_id) ==
    \/ agent_id \in Declared(tasks)
    \/ runs > 0
    \/ \E c \in Callers : calls[c].pc # "idle"

\* add_task(agent_id, executor, depends_on, args, kwargs), executor.py 38-62:
\* a new AgentTask, completed = False, is stored under agent_id, whatever the
\* executor is doing.  A coroutine of the replaced task that is suspended in
\* its operation stays so.
add_task(agent_id, depends_on, kwargs) ==
    /\ tasks' = TaskAssign(tasks, AgentTask(agent_id, depends_on, kwargs))
    /\ status' = DictSet(status, agent_id,
                         IF agent_id \in DOMAIN status /\ status[agent_id] = "Running"
                         THEN "Running" ELSE "Pending")
    /\ late' = IF Late(agent_id) THEN late + 1 ELSE late
    /\ UNCHANGED <<results, pc, max_concurrent, completed_tasks, batch, started,
                   received, gather_exc, raised, returned, batches, runs, orphans>>
    /\ UNCHANGED outside_executor

\* The calls of add_task a caller makes, within the bounds: new ids are taken
\* in the order of IdPool, at most MaxTasks of them; the graph has at most
\* MaxEdges edges and at most one task with pre-declared kwargs; at most
\* MaxLate calls are late.
AddTask ==
    /\ late < MaxLate \/ (runs = 0 /\ \A c \in Callers : calls[c].pc = "idle")
    /\ \E agent_id \in TaskIds :
          /\ agent_id \in Declared(tasks) \/ agent_id = IdPool[Len(tasks) + 1]
          /\ Late(agent_id) => late < MaxLate
          /\ \E depends_on \in DepChoices, kwargs \in KwargsChoices :
                LET ts == TaskAssign(tasks, AgentTask(agent_id, depends_on, kwargs)) IN
                /\ PreDeclared(ts) <= 1
                /\ EdgeCount(ts, Len(ts)) <= MaxEdges
                /\ add_task(agent_id, depends_on, kwargs)

\* A depends_on list that names its ids in the order of IdPool.
InPoolOrder(deps) ==
    \A i, j \in 1..Len(deps) :
        i < j => \E k, l \in 1..Len(IdPool) : k < l /\ IdPool[k] = deps[i] /\ IdPool[l] = deps[j]

\* The control flow of the design: a caller populates the graph, one new id
\* per call, and only then calls execute().  These are the calls of add_task
\* that are not late; their depends_on lists are written in the order of
\* IdPool (the order of a list matters only to the KeyError of line 88,
\* which needs a late call).
Populate ==
    /\ pc = "idle"
    /\ runs = 0
    /\ Len(tasks) < MaxTasks
    /\ AddTask
    /\ late' = late
    /\ InPoolOrder(tasks'[Len(tasks')].depends_on)

\* ----------------------------------------------------------------- execute

\* Faulty variant: the ready set is not tested, an empty round is performed.
NoDeadlockCheck_LoopHead(completed, mc, history) ==
    LET ready_tasks == _get_ready_tasks(tasks, completed) IN
    IF Cardinality(completed) < Len(tasks)
    THEN /\ pc' = "gather"
         /\ batch' = Take(ready_tasks, mc)
         /\ started' = 0
         /\ batches' = IF Len(history) < MaxRounds
                       THEN Append(history, batch') ELSE history
         /\ raised' = NoError
         /\ returned' = EmptyDict
    ELSE /\ pc' = "returned"
         /\ returned' = results
         /\ raised' = NoError
         /\ batch' = <<>>
         /\ started' = 0
         /\ batches' = history

\* Faulty variant: an empty ready set ends the loop and execute() returns.
BreakOnEmpty_LoopHead(completed, mc, history) ==
    LET ready_tasks == _get_ready_tasks(tasks, completed) IN
    IF Cardinality(completed) < Len(tasks) /\ ready_tasks # <<>>
    THEN /\ pc' = "gather"
         /\ batch' = Take(ready_tasks, mc)
         /\ started' = 0
         /\ batches' = IF Len(history) < MaxRounds
                       THEN Append(history, batch') ELSE history
         /\ raised' = NoError
         /\ returned' = EmptyDict
    ELSE /\ pc' = "returned"
         /\ returned' = results
         /\ raised' = NoError
         /\ batch' = <<>>
         /\ started' = 0
         /\ batches' = history

\* The while loop of execute() from its test (line 113) to the next point
\* where the coroutine suspends or ends (line 124, 119 or 131), entered with
\* the completed set `completed` and the rounds `history` launched so far.
LoopHead(completed, mc, history) ==
    LET ready_tasks == _get_ready_tasks(tasks, completed) IN
    IF Cardinality(completed) < Len(tasks)
    THEN IF ready_tasks = <<>>
         THEN /\ pc' = "raised"
              /\ raised' = DeadlockError
              /\ returned' = EmptyDict
              /\ batch' = <<>>
              /\ started' = 0
              /\ batches' = history
         ELSE /\ pc' = "gather"
              /\ batch' = Take(ready_tasks, mc)
              /\ started' = 0
              /\ batches' = IF Len(history) < MaxRounds
                            THEN Append(history, batch') ELSE history
              /\ raised' = NoError
              /\ returned' = EmptyDict
    ELSE /\ pc' = "returned"
         /\ returned' = results
         /\ raised' = NoError
         /\ batch' = <<>>
         /\ started' = 0
         /\ batches' = history

\* A caller awaits execute(max_concurrent): lines 111-124, after the previous
\* call has ended.  The coroutines a call that raised left suspended in their
\* operation go on beside the new call.
Execute ==
    \E mc \in 0..MaxConc :
        /\ pc \in {"idle", "returned", "raised"}
        /\ runs < MaxRuns
        /\ orphans' = orphans (+) SetToBag({id \in DOMAIN status : status[id] = "Running"})
        /\ runs' = runs + 1
        /\ max_concurrent' = mc
        /\ completed_tasks' = {}
        /\ status' = [id \in DOMAIN status |->
                        IF TaskOf(tasks, id).completed THEN "Completed" ELSE "Pending"]
        /\ received' = EmptyDict
        /\ gather_exc' = NoError
        /\ LoopHead({}, mc, <<>>)
        /\ UNCHANGED <<tasks, results, late>>
        /\ UNCHANGED outside_executor

\* Faulty variant: the "<dep>_result" entries are written into the task's own
\* kwargs (no copy).
InPlace_TaskStart ==
    /\ pc = "gather"
    /\ started < Len(batch)
    /\ LET task_id == batch[started + 1]
           task == TaskOf(tasks, task_id)
           missing == {d \in LookedUp(task) : d \notin DOMAIN results}
       IN  /\ started' = started + 1
           /\ IF missing = {}
              THEN /\ status' = [status EXCEPT ![task_id] = "Running"]
                   /\ received' = DictSet(received, task_id, effective_kwargs(task, results))
                   /\ tasks' = [i \in 1..Len(tasks) |->
                                   IF tasks[i].agent_id = task_id
                                   THEN [tasks[i] EXCEPT !.kwargs = effective_kwargs(task, results)]
                                   ELSE tasks[i]]
                   /\ UNCHANGED gather_exc
              ELSE /\ status' = [status EXCEPT ![task_id] = "Failed"]
                   /\ gather_exc' = IF gather_exc = NoError
                                    THEN MissingResult(FirstMissing(task, results))
                                    ELSE gather_exc
                   /\ UNCHANGED <<received, tasks>>
    /\ UNCHANGED <<results, pc, max_concurrent, completed_tasks, batch,
                   raised, returned, batches, runs>>
    /\ UNCHANGED <<late, orphans>>
    /\ UNCHANGED outside_executor
\* The event loop runs the first step of the next coroutine of the batch:
\* _execute_task up to "await task.executor", lines 79-92.
TaskStart ==
    /\ pc = "gather"
    /\ started < Len(batch)
    /\ LET task_id == batch[started + 1]
           task == TaskOf(tasks, task_id)
           missing == {d \in LookedUp(task) : d \notin DOMAIN results}
       IN  /\ started' = started + 1
           /\ IF missing = {}
              THEN /\ status' = [status EXCEPT ![task_id] = "Running"]
                   /\ received' = DictSet(received, task_id, effective_kwargs(task, results))
                   /\ UNCHANGED gather_exc
              ELSE /\ status' = [status EXCEPT ![task_id] = "Failed"]
                   /\ gather_exc' = IF gather_exc = NoError
                                    THEN MissingResult(FirstMissing(task, results))
                                    ELSE gather_exc
                   /\ UNCHANGED received
    /\ UNCHANGED <<tasks, results, pc, max_concurrent, completed_tasks, batch,
                   raised, returned, batches, runs>>
    /\ UNCHANGED <<late, orphans>>
    /\ UNCHANGED outside_executor

\* self.tasks[task_id].completed = True
MarkCompleted(ts, task_id) ==
    [i \in 1..Len(ts) |->
        IF ts[i].agent_id = task_id THEN [ts[i] EXCEPT !.completed = TRUE] ELSE ts[i]]

\* The operation of a running task returns `result`: lines 92-96.
TaskSucceed ==
    \E task_id \in DOMAIN status :
        /\ status[task_id] = "Running"
        /\ tasks' = MarkCompleted(tasks, task_id)
        /\ results' = DictSet(results, task_id, OpResult(task_id))
        /\ status' = [status EXCEPT ![task_id] = "Completed"]
        /\ UNCHANGED <<pc, max_concurrent, completed_tasks, batch, started, received,
                       gather_exc, raised, returned, batches, runs>>
        /\ UNCHANGED <<late, orphans>>
        /\ UNCHANGED outside_executor

\* Faulty variant: the exception is stored as the task's result.
StoreError_TaskFail ==
    \E task_id \in DOMAIN status, ty \in OpErrorTypes :
        /\ status[task_id] = "Running"
        /\ status' = [status EXCEPT ![task_id] = "Failed"]
        /\ results' = DictSet(results, task_id, ty)
        /\ gather_exc' = IF pc = "gather" /\ gather_exc = NoError
                         THEN OpError(ty, task_id) ELSE gather_exc
        /\ UNCHANGED <<tasks, pc, max_concurrent, completed_tasks, batch,
                       started, received, raised, returned, batches, runs>>
        /\ UNCHANGED <<late, orphans>>
        /\ UNCHANGED outside_executor

\* The operation of a running task raises: lines 97-99.  The coroutine ends
\* with the exception; gather keeps the first exception of the batch.
TaskFail ==
    \E task_id \in DOMAIN status, ty \in OpErrorTypes :
        /\ status[task_id] = "Running"
        /\ status' = [status EXCEPT ![task_id] = "Failed"]
        /\ gather_exc' = IF pc = "gather" /\ gather_exc = NoError
                         THEN OpError(ty, task_id) ELSE gather_exc
        /\ UNCHANGED <<tasks, results, pc, max_concurrent, completed_tasks, batch,
                       started, received, raised, returned, batches, runs>>
        /\ UNCHANGED <<late, orphans>>
        /\ UNCHANGED outside_executor

\* "await asyncio.gather" raises the first exception of the batch
\* into execute(), which has no handler: line 124.  gather was awaited after
\* every coroutine of the batch was scheduled, so each has run its first step.
GatherRaise ==
    /\ pc = "gather"
    /\ gather_exc # NoError
    /\ started = Len(batch)
    /\ pc' = "raised"
    /\ raised' = gather_exc
    /\ UNCHANGED <<tasks, results, max_concurrent, completed_tasks, batch, started,
                   status, received, gather_exc, returned, batches, runs>>
    /\ UNCHANGED <<late, orphans>>
    /\ UNCHANGED outside_executor

\* Faulty variant: execute() goes on as soon as one coroutine of the batch
\* has returned.
FirstCompleted_GatherReturn ==
    /\ pc = "gather"
    /\ gather_exc = NoError
    /\ started = Len(batch)
    /\ \E i \in 1..Len(batch) : status[batch[i]] = "Completed"
    /\ completed_tasks' = completed_tasks \cup CompletedFlagged(tasks)
    /\ LoopHead(completed_tasks', max_concurrent, batches)
    /\ UNCHANGED <<tasks, results, max_concurrent, status, received, gather_exc, runs>>
    /\ UNCHANGED <<late, orphans>>
    /\ UNCHANGED outside_executor

\* Every coroutine of the batch has ended and none with an exception: gather
\* returns, execute() updates completed_tasks (lines 127-129) and runs the
\* loop again (lines 113-124).  A coroutine that has run its first step and
\* has not ended is one whose id is "Running", whatever was declared under
\* the id since.
GatherReturn ==
    /\ pc = "gather"
    /\ gather_exc = NoError
    /\ started = Len(batch)
    /\ \A i \in 1..Len(batch) : status[batch[i]] # "Running"
    /\ completed_tasks' = completed_tasks \cup CompletedFlagged(tasks)
    /\ LoopHead(completed_tasks', max_concurrent, batches)
    /\ UNCHANGED <<tasks, results, max_concurrent, status, received, gather_exc, runs>>
    /\ UNCHANGED <<late, orphans>>
    /\ UNCHANGED outside_executor

\* The operation of a coroutine an earlier call left behind returns: lines
\* 92-96 set the completed flag of the task now declared under its id and
\* write self.results, which is the dict a call that returned handed out.
OrphanSucceed ==
    \E task_id \in BagToSet(orphans) :
        /\ orphans' = orphans (-) SetToBag({task_id})
        /\ tasks' = MarkCompleted(tasks, task_id)
        /\ results' = DictSet(results, task_id, OpResult(task_id))
        /\ status' = [status EXCEPT ![task_id] = IF @ = "Pending" THEN "Completed" ELSE @]
        /\ returned' = IF pc = "returned" THEN results' ELSE returned
        /\ UNCHANGED <<pc, max_concurrent, completed_tasks, batch, started, received,
                       gather_exc, raised, batches, runs, late>>
        /\ UNCHANGED outside_executor

\* The operation of a coroutine an earlier call left behind raises: lines
\* 97-99; the gather it belonged to has raised already and nobody is told.
OrphanFail ==
    \E task_id \in BagToSet(orphans) :
        /\ orphans' = orphans (-) SetToBag({task_id})
        /\ UNCHANGED <<tasks, results, pc, max_concurrent, completed_tasks, batch,
                       started, status, received, gather_exc, raised, returned,
                       batches, runs, late>>
        /\ UNCHANGED outside_executor

\* A caller calls execute() again once the coroutines of the call that raised
\* have all ended.
ExecuteAfterJoin ==
    /\ \A id \in DOMAIN status : status[id] # "Running"
    /\ Execute

\* The control flow of the design, one caller at a time: the graph is
\* populated, then execute() is called, and called again only when no
\* coroutine of an earlier call is left.
Next ==
    \/ Populate
    \/ ExecuteAfterJoin
    \/ TaskStart
    \/ TaskSucceed
    \/ TaskFail
    \/ GatherRaise
    \/ GatherReturn

Spec == Init /\ [][Next]_vars

\* Every call the executor accepts from one caller at a time: add_task at
\* any moment and on any id, execute() while coroutines of an earlier call
\* are still suspended.
NextLate ==
    \/ AddTask
    \/ Execute
    \/ TaskStart
    \/ TaskSucceed
    \/ TaskFail
    \/ GatherRaise
    \/ GatherReturn
    \/ OrphanSucceed
    \/ OrphanFail

SpecLate == Init /\ [][NextLate]_vars

\* The runs in which every operation returns: no operation raises, the event
\* loop runs every coroutine step it has scheduled, and every operation that
\* was invoked eventually returns.
NextOK ==
    \/ Populate
    \/ ExecuteAfterJoin
    \/ TaskStart
    \/ TaskSucceed
    \/ GatherReturn

SpecOK ==
    /\ Init
    /\ [][NextOK]_vars
    /\ WF_vars(TaskStart)
    /\ WF_vars(TaskSucceed)
    /\ WF_vars(GatherReturn)

\* --------------------------------------------------------------- visualize

\* A line f"{indent}|_ {node_id}" of the rendering, with indent = "  " * depth:
\* the number of spaces it starts with and the id it names.
Line(depth, node_id) == [indent |-> 2 * depth, node |-> node_id]

\* [task_id for task_id, task in self.tasks.items() if node_id in task.depends_on]
Dependents(ts, node_id) ==
    SelectSeq(TaskOrder(ts), LAMBDA task_id : node_id \in Range(TaskOf(ts, task_id).depends_on))

RECURSIVE _visualize_node(_, _, _, _)
RECURSIVE VisitEach(_, _, _, _, _)
\* _visualize_node(node_id, depth), executor.py 149-162, on the enclosing
\* call's visited set and result list (acc); gives them as the call leaves
\* them.
_visualize_node(ts, node_id, depth, acc) ==
    IF node_id \in acc.visited THEN acc
    ELSE VisitEach(ts, Dependents(ts, node_id), 1, depth + 1,
                   [visited |-> acc.visited \cup {node_id},
                    lines |-> Append(acc.lines, Line(depth, node_id))])
\* "for node in nodes: _visualize_node(node, depth)" from the i-th node on.
VisitEach(ts, nodes, i, depth, acc) ==
    IF i > Len(nodes) THEN acc
    ELSE VisitEach(ts, nodes, i + 1, depth, _visualize_node(ts, nodes[i], depth, acc))

\* Faulty variant: the walk starts from every task.
All_RootNodes(ts) == TaskOrder(ts)
\* [task_id for task_id, task in self.tasks.items() if not task.depends_on]
RootNodes(ts) ==
    SelectSeq(TaskOrder(ts), LAMBDA task_id : TaskOf(ts, task_id).depends_on = <<>>)

\* visualize(), executor.py 133-168: the header line and the lines the walk
\* from the root nodes appends, in order (joined by newlines in the code).
visualize(ts) ==
    [header |-> "Dependency Graph:",
     lines |-> VisitEach(ts, RootNodes(ts), 1, 0, [visited |-> {}, lines |-> <<>>]).lines]

\* Faulty variant: the call also resets the completed flags of the tasks.
Resetting_Visualize ==
    /\ visualized' = visualize(tasks)
    /\ visualized_at' = Len(tasks)
    /\ tasks' = [i \in 1..Len(tasks) |-> [tasks[i] EXCEPT !.completed = FALSE]]
    /\ UNCHANGED <<results, pc, max_concurrent, completed_tasks, batch, started,
                   status, received, gather_exc, raised, returned, batches, runs>>
    /\ UNCHANGED <<late, orphans>>
    /\ UNCHANGED <<retry_vars, handler_vars, factory_vars, overlap_vars>>

\* A caller calls visualize() on the executor, at any time.
Visualize ==
    /\ visualized' = visualize(tasks)
    /\ visualized_at' = Len(tasks)
    /\ UNCHANGED outside_visualize

\* An executor whose operations all return and whose caller declares tasks,
\* calls execute() and calls visualize() before, during and after the calls
\* of execute().
NextVisualize == NextOK \/ Visualize

SpecVisualize == Init /\ [][NextVisualize]_vars

\* ------------------------------------------- overlapping calls of execute

\* The other caller.
Other(c) == CHOOSE d \in Callers : d # c

\* The while loop of execute() in the frame `call`, from its test (line 113)
\* with the completed set `completed` to the point where the frame suspends in
\* gather (124), raises (119) or returns self.results (131).
loop(call, completed) ==
    LET ready_tasks == _get_ready_tasks(tasks, completed) IN
    IF Cardinality(completed) < Len(tasks)
    THEN IF ready_tasks = <<>>
         THEN [call EXCEPT !.pc = "raised", !.raised = DeadlockError,
                           !.completed_tasks = completed,
                           !.batch = <<>>, !.started = 0, !.status = <<>>]
         ELSE LET tasks_to_execute == Take(ready_tasks, call.max_concurrent) IN
              [call EXCEPT !.pc = "gather", !.completed_tasks = completed,
                           !.batch = tasks_to_execute, !.started = 0,
                           !.gather_exc = NoError,
                           !.status = [i \in 1..Len(tasks_to_execute) |-> "Pending"]]
    ELSE [call EXCEPT !.pc = "returned", !.returned = results,
                      !.writers = stored_by,
                      !.completed_tasks = completed,
                      !.batch = <<>>, !.started = 0, !.status = <<>>]

\* "return self.results", line 131, hands the caller the executor's own dict:
\* what a caller was handed shows every later write.  The frames of the calls
\* that have returned are kept equal to self.results, res, and its writers, by.
Handed(frames, res, by) ==
    [d \in Callers |->
        IF frames[d].pc = "returned"
        THEN [frames[d] EXCEPT !.returned = res, !.writers = by]
        ELSE frames[d]]

\* Caller c awaits execute(mc), lines 111-124, on a graph that has tasks.  The
\* call overlaps the other caller's when that one is suspended in gather.
ExecuteBy(c) ==
    \E mc \in 1..MaxConc :
        LET overlaps == calls[Other(c)].pc = "gather"
            frame == loop([calls[c] EXCEPT !.max_concurrent = mc,
                                           !.overlapped = overlaps], {})
        IN  /\ calls[c].pc = "idle"
            /\ tasks # <<>>
            /\ calls' = [d \in Callers |->
                            IF d = c THEN frame
                            ELSE [calls[d] EXCEPT !.overlapped = @ \/ overlaps]]
            /\ UNCHANGED <<stored_by, executor_vars>>
            /\ UNCHANGED outside_overlap

\* The event loop runs the first step of the next coroutine of caller c's
\* batch: _execute_task up to "await task.executor", lines 79-92, reading
\* self.results for every dependency (line 88).  A dependency without a
\* result (the task was declared anew after the batch was chosen) ends the
\* coroutine with KeyError.
TaskStartBy(c) ==
    LET call == calls[c]
        task == TaskOf(tasks, call.batch[call.started + 1])
        missing == {d \in LookedUp(task) : d \notin DOMAIN results}
    IN
    /\ call.pc = "gather"
    /\ call.started < Len(call.batch)
    /\ calls' = [calls EXCEPT
          ![c] = IF missing = {}
                 THEN [call EXCEPT !.started = @ + 1,
                                   !.status[call.started + 1] = "Running"]
                 ELSE [call EXCEPT !.started = @ + 1,
                                   !.status[call.started + 1] = "Failed",
                                   !.gather_exc =
                                       IF @ = NoError
                                       THEN MissingResult(FirstMissing(task, results))
                                       ELSE @]]
    /\ UNCHANGED <<stored_by, executor_vars>>
    /\ UNCHANGED outside_overlap

\* The operation of a running coroutine of caller c's batch returns: lines
\* 92-96 set the task's completed flag and write self.results.
TaskSucceedBy(c) ==
    \E i \in 1..Len(calls[c].batch) :
        LET task_id == calls[c].batch[i] IN
        /\ calls[c].status[i] = "Running"
        /\ tasks' = MarkCompleted(tasks, task_id)
        /\ results' = DictSet(results, task_id, OpResult(task_id))
        /\ stored_by' = DictSet(stored_by, task_id, c)
        /\ calls' = Handed([calls EXCEPT ![c].status[i] = "Completed"],
                           results', stored_by')
        /\ UNCHANGED <<pc, max_concurrent, completed_tasks, batch, started,
                       status, received, gather_exc, raised, returned,
                       batches, runs>>
        /\ UNCHANGED <<late, orphans>>
        /\ UNCHANGED outside_overlap

\* Every coroutine of caller c's batch returned: gather returns, the frame
\* updates completed_tasks from the completed flags (lines 127-129) and runs
\* the loop again.
GatherReturnBy(c) ==
    LET call == calls[c] IN
    /\ call.pc = "gather"
    /\ call.gather_exc = NoError
    /\ call.started = Len(call.batch)
    /\ \A i \in 1..Len(call.batch) : call.status[i] = "Completed"
    /\ calls' = [calls EXCEPT
                    ![c] = loop(call, call.completed_tasks \cup CompletedFlagged(tasks))]
    /\ UNCHANGED <<stored_by, executor_vars>>
    /\ UNCHANGED outside_overlap

\* gather raises the first exception of caller c's batch into execute(),
\* which raises it to the caller: line 124.
GatherRaiseBy(c) ==
    LET call == calls[c] IN
    /\ call.pc = "gather"
    /\ call.gather_exc # NoError
    /\ call.started = Len(call.batch)
    /\ calls' = [calls EXCEPT ![c].pc = "raised", ![c].raised = call.gather_exc]
    /\ UNCHANGED <<stored_by, executor_vars>>
    /\ UNCHANGED outside_overlap

Execute2 == \E c \in Callers : ExecuteBy(c)
TaskStart2 == \E c \in Callers : TaskStartBy(c)
TaskSucceed2 == \E c \in Callers : TaskSucceedBy(c)
GatherReturn2 == \E c \in Callers : GatherReturnBy(c)
GatherRaise2 == \E c \in Callers : GatherRaiseBy(c)

NextOverlap ==
    \/ AddTask
    \/ Execute2
    \/ TaskStart2
    \/ TaskSucceed2
    \/ GatherReturn2
    \/ GatherRaise2

\* One executor, two callers whose calls of execute() may overlap, add_task
\* called at any moment; every operation returns.
SpecOverlap == Init /\ [][NextOverlap]_vars
\* ------------------------------------------------------- graph vocabulary

\* task.depends_on of a declared id; an undeclared id has no task.
DepsOf(ts, id) == IF id \in DeclaredIds(ts) THEN Range(TaskOf(ts, id).depends_on) ELSE {}

\* The ids reachable from the set S along depends_on edges in at most n steps.
RECURSIVE ReachIn(_, _, _)
ReachIn(ts, S, n) ==
    IF n = 0 \/ S = {} THEN S
    ELSE LET more == S \cup UNION {DepsOf(ts, id) : id \in S}
         IN  IF more = S THEN S ELSE ReachIn(ts, more, n - 1)

\* Every id the task depends on, directly or through other tasks.
TransitiveDeps(ts, id) == ReachIn(ts, DepsOf(ts, id), Len(ts))

\* Some task is among its own transitive dependencies.
HasCycle(ts) ==
    \E i \in 1..Len(ts) :
        /\ ts[i].depends_on # <<>>
        /\ ts[i].agent_id \in ReachIn(ts, Range(ts[i].depends_on), Len(ts))
\* Every id listed in a depends_on is the id of a task of the graph.
AllDepsDeclared(ts) ==
    \A i \in 1..Len(ts) : \A dep \in Range(ts[i].depends_on) : dep \in DeclaredIds(ts)

\* The tasks whose coroutine is between its first step and its end.
RunningTasks == {id \in DOMAIN status : status[id] = "Running"}
FailedTasks == {id \in DOMAIN status : status[id] = "Failed"}

\* ------------------------------------------------------------------ retry

\* The error classes a wrapped function raises in this model: the leaves of
\* the taxonomy and a plain Exception.
ErrorKinds ==
    {"TokenLimitError", "LLMTimeoutError", "InvalidOutputError",
     "UserInterruptError", "ConfigurationError", "DependencyError",
     "AgentExecutionError", "Exception"}

\* The value func returns at its n-th invocation and the exception it raises
\* there.
FuncValue(n) == [value |-> "ok_" \o ToString(n)]
FuncError(ty, n) == [type |-> ty, message |-> "attempt " \o ToString(n)]

\* The arguments retry() is applied to: max_attempts, backoff_factor (1.5,
\* the default, and 2), and explicit exceptions lists.
MaxAttemptsChoices == -1..MaxAttempts
DefaultBackoff == <<3, 2>>
BackoffChoices == {DefaultBackoff, <<2, 1>>}
ExceptionsChoices == {{"LLMError"}, {"ConfigurationError", "InvalidOutputError"}, {}}

RECURSIVE Power(_, _)
\* b ** n for an integer b and n >= 0.
Power(b, n) == IF n = 0 THEN 1 ELSE b * Power(b, n - 1)
\* factor ** n for a rational factor.
RatPower(factor, n) == <<Power(factor[1], n), Power(factor[2], n)>>

\* Faulty variant: the exponent is the attempt number.
NoMinusOne_wait_time(factor, a) == RatPower(factor, a)
\* wait_time = backoff_factor ** (attempt - 1), handler.py 237 and 257.
wait_time(factor, a) == RatPower(factor, a - 1)

\* Faulty variant: every exception is caught.
CatchAll_Caught(e, classes) == TRUE
\* "except tuple(exceptions) as e", handler.py 233 and 253: e is an instance
\* of one of the classes.
Caught(e, classes) == \E cls \in classes : IsInstance(e, cls)

\* Faulty variant: one more attempt is allowed.
OffByOne_AttemptsRemain(a, m) == a <= m
\* "if attempt < max_attempts", handler.py 236 and 256.
AttemptsRemain(a, m) == a < m

\* Faulty variant: InvalidOutputError is among the defaults.
Wide_ResolveExceptions(given, classes) ==
    IF given THEN classes ELSE DefaultExceptions \cup {"InvalidOutputError"}
\* "if exceptions is None: exceptions = [...]", handler.py 224-225.
ResolveExceptions(given, classes) ==
    IF given THEN classes ELSE DefaultExceptions

\* retry(max_attempts, backoff_factor, exceptions) applied to func:
\* decorator, handler.py 214-273.  The wrapper is async_wrapper when func is
\* a coroutine function, else sync_wrapper (lines 269-272).
retry(ma, factor, given, classes, coro) ==
    /\ retry_pc = "undecorated"
    /\ retry_pc' = "decorated"
    /\ max_attempts' = ma
    /\ backoff_factor' = factor
    /\ exceptions_given' = given
    /\ exceptions' = ResolveExceptions(given, classes)
    /\ is_coroutine' = coro
    /\ UNCHANGED <<attempt, last_exception, invocations, failures, waits,
                   retry_returned, retry_raised>>
    /\ UNCHANGED outside_retry

Decorate ==
    \E ma \in MaxAttemptsChoices, factor \in BackoffChoices, coro \in BOOLEAN :
        \/ retry(ma, factor, FALSE, {}, coro)
        \/ \E classes \in ExceptionsChoices : retry(ma, factor, TRUE, classes, coro)

\* Faulty variant: func is invoked once whatever max_attempts is.
AtLeastOnce_wrapper ==
    /\ retry_pc = "decorated"
    /\ last_exception' = NoError
    /\ attempt' = 1
    /\ invocations' = invocations + 1
    /\ retry_pc' = "calling"
    /\ UNCHANGED <<max_attempts, backoff_factor, exceptions, exceptions_given,
                   is_coroutine, failures, waits, retry_returned, retry_raised>>
    /\ UNCHANGED outside_retry
\* The wrapper is called: last_exception = None and the for loop over
\* range(1, max_attempts + 1) starts (lines 230-232, 250-252).  With
\* max_attempts < 1 the loop body never runs, last_exception is None and the
\* wrapper falls off its end, returning None (lines 245-246, 265-266).
wrapper ==
    /\ retry_pc = "decorated"
    /\ last_exception' = NoError
    /\ IF max_attempts >= 1
       THEN /\ attempt' = 1
            /\ invocations' = invocations + 1
            /\ retry_pc' = "calling"
            /\ UNCHANGED retry_returned
       ELSE /\ retry_pc' = "returned"
            /\ retry_returned' = None
            /\ UNCHANGED <<attempt, invocations>>
    /\ UNCHANGED <<max_attempts, backoff_factor, exceptions, exceptions_given,
                   is_coroutine, failures, waits, retry_raised>>
    /\ UNCHANGED outside_retry

\* Faulty variant: the result is kept and the loop goes on to the next
\* attempt.
NoReturn_FuncReturn ==
    /\ retry_pc = "calling"
    /\ retry_returned' = FuncValue(invocations)
    /\ IF attempt < max_attempts
       THEN /\ attempt' = attempt + 1
            /\ invocations' = invocations + 1
            /\ retry_pc' = "calling"
       ELSE /\ retry_pc' = "returned"
            /\ UNCHANGED <<attempt, invocations>>
    /\ UNCHANGED <<max_attempts, backoff_factor, exceptions, exceptions_given,
                   is_coroutine, last_exception, failures, waits, retry_raised>>
    /\ UNCHANGED outside_retry

\* func returns: "return await func(...)" / "return func(...)", lines 233
\* and 253.
FuncReturn ==
    /\ retry_pc = "calling"
    /\ retry_pc' = "returned"
    /\ retry_returned' = FuncValue(invocations)
    /\ UNCHANGED <<max_attempts, backoff_factor, exceptions, exceptions_given,
                   is_coroutine, attempt, last_exception, invocations,
                   failures, waits, retry_raised>>
    /\ UNCHANGED outside_retry

\* func raises e (lines 234-243, 254-263).  An exception the except clause
\* catches is recorded; with attempts left the wrapper sleeps wait_time
\* seconds, else it re-raises.  Any other exception leaves the wrapper at
\* once.
FuncRaise ==
    \E ty \in ErrorKinds :
        LET e == FuncError(ty, invocations) IN
        /\ retry_pc = "calling"
        /\ failures' = Append(failures, e)
        /\ IF Caught(e, exceptions)
           THEN /\ last_exception' = e
                /\ IF AttemptsRemain(attempt, max_attempts)
                   THEN /\ waits' = Append(waits, wait_time(backoff_factor, attempt))
                        /\ retry_pc' = "sleeping"
                        /\ UNCHANGED retry_raised
                   ELSE /\ retry_pc' = "raised"
                        /\ retry_raised' = e
                        /\ UNCHANGED waits
           ELSE /\ retry_pc' = "raised"
                /\ retry_raised' = e
                /\ UNCHANGED <<last_exception, waits>>
        /\ UNCHANGED <<max_attempts, backoff_factor, exceptions, exceptions_given,
                       is_coroutine, attempt, invocations, retry_returned>>
        /\ UNCHANGED outside_retry

\* The sleep ends (asyncio.sleep in async_wrapper, time.sleep in
\* sync_wrapper): the loop goes to its next attempt and calls func.
SleepEnds ==
    /\ retry_pc = "sleeping"
    /\ attempt' = attempt + 1
    /\ invocations' = invocations + 1
    /\ retry_pc' = "calling"
    /\ UNCHANGED <<max_attempts, backoff_factor, exceptions, exceptions_given,
                   is_coroutine, last_exception, failures, waits,
                   retry_returned, retry_raised>>
    /\ UNCHANGED outside_retry

NextRetry == Decorate \/ wrapper \/ FuncReturn \/ FuncRaise \/ SleepEnds

\* One decorated function called once.
SpecRetry == Init /\ [][NextRetry]_vars

\* ------------------------------------------- the two wrappers, side by side

\* What one invocation of func does: it returns a value or raises an error.
Returns(value) == [raises |-> FALSE, value |-> value, error |-> NoError]
Raises(error) == [raises |-> TRUE, value |-> None, error |-> error]

\* How a call of a wrapper went: the calls of func it made, the sleeps it
\* took, and the value it returned or the exception it raised.
WrapperRun(made, slept, value, error) ==
    [invocations |-> made, waits |-> slept, returned |-> value, raised |-> error]

\* The wrapper asks for an nth the sequence does not hold.
MoreOutcomesNeeded == [value |-> "more outcomes needed"]

RECURSIVE async_attempts(_, _, _, _, _, _, _)
RECURSIVE sync_attempts(_, _, _, _, _, _, _)
RECURSIVE NoBackoff_sync_attempts(_, _, _, _, _, _, _)

\* The for loop of async_wrapper from attempt a on, handler.py 232-246, when
\* the i-th await of func ends as outcomes[i]; slept are the waits taken so
\* far and last is last_exception.
async_attempts(ma, factor, classes, outcomes, a, slept, last) ==
    IF a > ma THEN WrapperRun(a - 1, slept, None, last)
    ELSE IF a > Len(outcomes) THEN WrapperRun(a - 1, slept, MoreOutcomesNeeded, NoError)
    ELSE LET nth == outcomes[a] IN
         IF ~nth.raises THEN WrapperRun(a, slept, nth.value, NoError)
         ELSE IF ~(\E cls \in classes : IsInstance(nth.error, cls))
              THEN WrapperRun(a, slept, None, nth.error)
         ELSE IF a < ma
              THEN async_attempts(ma, factor, classes, outcomes, a + 1,
                                  Append(slept, RatPower(factor, a - 1)),
                                  nth.error)
              ELSE WrapperRun(a, slept, None, nth.error)

\* Faulty variant: the sync wrapper sleeps one second before every retry,
\* whatever the attempt.
NoBackoff_sync_attempts(ma, factor, classes, outcomes, a, slept, last) ==
    IF a > ma THEN WrapperRun(a - 1, slept, None, last)
    ELSE IF a > Len(outcomes) THEN WrapperRun(a - 1, slept, MoreOutcomesNeeded, NoError)
    ELSE LET nth == outcomes[a] IN
         IF ~nth.raises THEN WrapperRun(a, slept, nth.value, NoError)
         ELSE IF ~(\E cls \in classes : IsInstance(nth.error, cls))
              THEN WrapperRun(a, slept, None, nth.error)
         ELSE IF a < ma
              THEN NoBackoff_sync_attempts(ma, factor, classes, outcomes, a + 1,
                                           Append(slept, <<1, 1>>), nth.error)
              ELSE WrapperRun(a, slept, None, nth.error)
\* The for loop of sync_wrapper from attempt a on, handler.py 252-266, when
\* the i-th call of func ends as outcomes[i].
sync_attempts(ma, factor, classes, outcomes, a, slept, last) ==
    IF a > ma THEN WrapperRun(a - 1, slept, None, last)
    ELSE IF a > Len(outcomes) THEN WrapperRun(a - 1, slept, MoreOutcomesNeeded, NoError)
    ELSE LET nth == outcomes[a] IN
         IF ~nth.raises THEN WrapperRun(a, slept, nth.value, NoError)
         ELSE IF ~(\E cls \in classes : IsInstance(nth.error, cls))
              THEN WrapperRun(a, slept, None, nth.error)
         ELSE IF a < ma
              THEN sync_attempts(ma, factor, classes, outcomes, a + 1,
                                 Append(slept, RatPower(factor, a - 1)),
                                 nth.error)
              ELSE WrapperRun(a, slept, None, nth.error)

\* async_wrapper, handler.py 229-246: last_exception = None, then the loop.
async_wrapper(ma, factor, classes, outcomes) ==
    async_attempts(ma, factor, classes, outcomes, 1, <<>>, NoError)

\* sync_wrapper, handler.py 248-266.
sync_wrapper(ma, factor, classes, outcomes) ==
    sync_attempts(ma, factor, classes, outcomes, 1, <<>>, NoError)
\* ------------------------------------- a retried operation inside a batch

\* The operation of the first coroutine of the first batch of the first call
\* of execute() calls a function decorated with retry(), once.  execute() and
\* the coroutines it gathers run on the one thread of the event loop
\* (executor.py 124).  sync_wrapper runs on that thread from its call to its
\* end: func is called, not awaited (handler.py 253) and the wait is
\* time.sleep (261), which returns to nobody until the time is over.
\* async_wrapper awaits func (233) and asyncio.sleep (239), so the loop may
\* run other coroutines meanwhile.
EventLoopBlocked == ~is_coroutine /\ retry_pc \in {"calling", "sleeping"}

\* execute() is suspended in the first gather of its first call, and the
\* operation of the first coroutine of the batch is running.
OperationRunning ==
    /\ pc = "gather"
    /\ runs = 1
    /\ Len(batches) = 1
    /\ started >= 1
    /\ status[batch[1]] = "Running"

\* The task whose operation is inside the wrapper.
Retrying == IF retry_pc \in {"calling", "sleeping"} THEN {batch[1]} ELSE {}

\* The task whose operation the wrapper has left by raising, the operation
\* still running.
Thrown == IF retry_pc = "raised" /\ OperationRunning THEN {batch[1]} ELSE {}

\* The function is decorated when the module defining it is loaded, before
\* any task is declared; backoff_factor and exceptions are left to their
\* defaults.
DecorateOperation ==
    /\ tasks = <<>>
    /\ \E ma \in MaxAttemptsChoices, coro \in BOOLEAN :
           retry(ma, DefaultBackoff, FALSE, {}, coro)

\* The operation, once started, calls the wrapper.
OperationCallsWrapper ==
    /\ OperationRunning
    /\ wrapper

\* The loop runs the first step of the next coroutine of the batch.
LoopStartsTask == ~EventLoopBlocked /\ TaskStart

\* The loop resumes a coroutine whose operation returns; the operation that
\* is inside the wrapper has not returned.  An operation the wrapper left by
\* raising returns when it catches the exception.
LoopEndsTask ==
    /\ ~EventLoopBlocked
    /\ TaskSucceed
    /\ \A id \in Retrying : status'[id] = "Running"

\* The operation lets the exception the wrapper raised through: its coroutine
\* ends with it (executor.py 97-99) and gather keeps the first exception of
\* the batch.
OperationRaises ==
    \E task_id \in Thrown :
        /\ status' = [status EXCEPT ![task_id] = "Failed"]
        /\ gather_exc' = IF gather_exc = NoError THEN retry_raised ELSE gather_exc
        /\ UNCHANGED <<tasks, results, pc, max_concurrent, completed_tasks, batch,
                       started, received, raised, returned, batches, runs,
                       orphans, late>>
        /\ UNCHANGED outside_executor

\* The loop resumes execute() when gather is done: it returned, or it raised
\* the exception of the operation into execute(), which raises it to its
\* caller.
LoopEndsGather == ~EventLoopBlocked /\ GatherReturn
LoopRaisesGather == ~EventLoopBlocked /\ GatherRaise

\* The graph is populated before execute() is called and execute() is called
\* again only when no coroutine of the call before is left; no operation
\* fails but by letting the wrapper's exception through.
NextBatchRetry ==
    \/ DecorateOperation
    \/ Populate
    \/ ExecuteAfterJoin
    \/ LoopStartsTask
    \/ OperationCallsWrapper
    \/ FuncReturn
    \/ FuncRaise
    \/ SleepEnds
    \/ LoopEndsTask
    \/ OperationRaises
    \/ LoopEndsGather
    \/ LoopRaisesGather

\* Runs of execute() in which one operation calls a retried function once.
SpecBatchRetry == Init /\ [][NextBatchRetry]_vars

\* ----------------------------------------------------------- ErrorHandler

\* An error of class ty handed to handle or fallback.
ErrorOf(ty) == [type |-> ty, message |-> "boom"]
\* The classes a caller registers handlers and fallbacks for.
RegisterTypes == {"DAIError", "LLMError", "TokenLimitError", "ConfigurationError", "Exception"}
\* The function registered by the n-th registration call.
Custom(n) == "custom_" \o ToString(n)

\* Faulty variant: a class already registered keeps its function.
KeepFirst_DictAssign(registry, error_type, fn) ==
    IF \E i \in 1..Len(registry) : registry[i].error_type = error_type
    THEN registry
    ELSE Append(registry, Entry(error_type, fn))
\* registry[error_type] = fn on an insertion-ordered dict: a key already
\* present keeps its position, a new key goes last (handler.py 111, 121).
DictAssign(registry, error_type, fn) ==
    IF \E i \in 1..Len(registry) : registry[i].error_type = error_type
    THEN [i \in 1..Len(registry) |->
            IF registry[i].error_type = error_type
            THEN Entry(error_type, fn) ELSE registry[i]]
    ELSE Append(registry, Entry(error_type, fn))

\* The positions of the registry whose class the error is an instance of.
Matches(registry, error) ==
    {i \in 1..Len(registry) : IsInstance(error, registry[i].error_type)}
\* The smallest member of a non-empty set of positions.
First(positions) == CHOOSE i \in positions : \A j \in positions : i <= j

RECURSIVE Depth(_)
\* Number of classes between cls and Exception.
Depth(cls) == IF cls = "Exception" THEN 0 ELSE 1 + Depth(BaseClass[cls])

\* Faulty variant: the entry of the most specific matching class is taken,
\* whatever its position.
MostSpecific_Dispatch(registry, error, generic) ==
    LET hits == Matches(registry, error) IN
    IF hits = {} THEN generic
    ELSE registry[CHOOSE i \in hits :
                     \A j \in hits :
                        Depth(registry[j].error_type) <= Depth(registry[i].error_type)].fn
\* "for error_type, fn in registry.items(): if isinstance(error, error_type):
\* return fn(error)", else the generic function (handler.py 135-141, 154-159).
Dispatch(registry, error, generic) ==
    LET hits == Matches(registry, error) IN
    IF hits = {} THEN generic ELSE registry[First(hits)].fn

\* Faulty variants: the generic handler ends the process too; no function
\* ends the process.
GenericExits_Exits(fn) == fn \in {"_handle_user_interrupt", "_handle_generic"}
NoExit_Exits(fn) == FALSE
\* The function ends the process: sys.exit(0), handler.py 184.
Exits(fn) == fn = "_handle_user_interrupt"

\* What a handler or fallback function returns (handler.py 161-211); a
\* caller's own function returns a value naming it.
ReturnValue(fn, error) ==
    CASE fn = "_fallback_token_limit" -> [status |-> "retrying", action |-> "reduce_context"]
      [] fn = "_fallback_timeout" -> [status |-> "retrying", action |-> "backoff_retry"]
      [] fn = "_fallback_invalid_output" -> [status |-> "retrying", action |-> "simplify_request"]
      [] fn = "_fallback_generic" -> [status |-> "error", message |-> error.message]
      [] fn \in {"_handle_token_limit", "_handle_timeout", "_handle_invalid_output",
                 "_handle_generic", "_handle_user_interrupt"} -> None
      [] OTHER -> [status |-> "custom", action |-> fn]

\* register_handler(error_type, handler), handler.py 103-111.
register_handler(error_type, fn) ==
    /\ handler_pc = "ready"
    /\ registrations < MaxRegistrations
    /\ registrations' = registrations + 1
    /\ error_registry' = DictAssign(error_registry, error_type, fn)
    /\ UNCHANGED <<fallback_registry, last_error, handler_pc, called, invoked, outcome>>
    /\ UNCHANGED outside_handler

\* register_fallback(error_type, fallback), handler.py 113-121.
register_fallback(error_type, fn) ==
    /\ handler_pc = "ready"
    /\ registrations < MaxRegistrations
    /\ registrations' = registrations + 1
    /\ fallback_registry' = DictAssign(fallback_registry, error_type, fn)
    /\ UNCHANGED <<error_registry, last_error, handler_pc, called, invoked, outcome>>
    /\ UNCHANGED outside_handler

\* handle(error), handler.py 123-141.
handle(error) ==
    LET fn == Dispatch(error_registry, error, "_handle_generic") IN
    /\ handler_pc = "ready"
    /\ last_error' = error
    /\ called' = [op |-> "handle", error |-> error]
    /\ invoked' = fn
    /\ IF Exits(fn)
       THEN handler_pc' = "exited" /\ outcome' = None
       ELSE handler_pc' = "ready" /\ outcome' = ReturnValue(fn, error)
    /\ UNCHANGED <<error_registry, fallback_registry, registrations>>
    /\ UNCHANGED outside_handler

\* Faulty variant: the fallback is looked up among the handlers.
Handlers_fallback(error) ==
    LET fn == Dispatch(error_registry, error, "_handle_generic") IN
    /\ handler_pc = "ready"
    /\ called' = [op |-> "fallback", error |-> error]
    /\ invoked' = fn
    /\ IF Exits(fn)
       THEN handler_pc' = "exited" /\ outcome' = None
       ELSE handler_pc' = "ready" /\ outcome' = ReturnValue(fn, error)
    /\ UNCHANGED <<error_registry, fallback_registry, last_error, registrations>>
    /\ UNCHANGED outside_handler

\* fallback(error), handler.py 143-159.
fallback(error) ==
    LET fn == Dispatch(fallback_registry, error, "_fallback_generic") IN
    /\ handler_pc = "ready"
    /\ called' = [op |-> "fallback", error |-> error]
    /\ invoked' = fn
    /\ IF Exits(fn)
       THEN handler_pc' = "exited" /\ outcome' = None
       ELSE handler_pc' = "ready" /\ outcome' = ReturnValue(fn, error)
    /\ UNCHANGED <<error_registry, fallback_registry, last_error, registrations>>
    /\ UNCHANGED outside_handler

RegisterHandler ==
    \E error_type \in RegisterTypes :
        register_handler(error_type, Custom(registrations + 1))
RegisterFallback ==
    \E error_type \in RegisterTypes :
        register_fallback(error_type, Custom(registrations + 1))
Handle == \E ty \in ErrorKinds : handle(ErrorOf(ty))
Fallback == \E ty \in ErrorKinds : fallback(ErrorOf(ty))

NextHandler == RegisterHandler \/ RegisterFallback \/ Handle \/ Fallback

\* One ErrorHandler: registrations, handle and fallback calls in any order.
SpecHandler == Init /\ [][NextHandler]_vars

\* ----------------------------------------------------- LLMProviderFactory

\* The names, model sets and models callers use.
ProviderNames == {"openai", "anthropic", "invalid-provider"}
RegisterNames == {"openai", "anthropic"}
ModelSets == {{"claude-3"}, {"gpt-4", "claude-3"}, {}}
ModelNames == {"gpt-4", "gpt-4-turbo", "gpt-3.5-turbo", "claude-3", "invalid-model"}

\* d.get(k, default)
DictGet(d, k, default) == IF k \in DOMAIN d THEN d[k] ELSE default

\* Faulty variant: every model of a known provider is accepted.
AnyModel_validate_model(supported, provider_name, model) ==
    provider_name \in DOMAIN supported
\* validate_model(provider_name, model), provider_factory.py 109-120.
validate_model(supported, provider_name, model) ==
    model \in DictGet(supported, provider_name, {})

\* register_provider(name, provider_class, models), provider_factory.py 35-45.
register_provider(name, models) ==
    /\ provider_registrations < MaxProviderRegistrations
    /\ provider_registrations' = provider_registrations + 1
    /\ _providers' = DictSet(_providers, name, "Provider_" \o name)
    /\ _supported_models' = DictSet(_supported_models, name, models)
    /\ UNCHANGED validated
    /\ UNCHANGED outside_factory

RegisterProvider ==
    \E name \in RegisterNames, models \in ModelSets : register_provider(name, models)

\* A call of validate_model; the class attributes are only read.
ValidateModel ==
    \E provider_name \in ProviderNames, model \in ModelNames :
        /\ validated' = [provider_name |-> provider_name, model |-> model,
                         result |-> validate_model(_supported_models, provider_name, model)]
        /\ UNCHANGED <<_providers, _supported_models, provider_registrations>>
        /\ UNCHANGED outside_factory

NextFactory == RegisterProvider \/ ValidateModel

\* The factory class: registrations and validate_model calls in any order.
SpecFactory == Init /\ [][NextFactory]_vars

\* ------------------------------------------------------------------ claims

\* C1: a task's operation is invoked (the task becomes Running) only when
\* every id of its depends_on has a stored result in self.results and is in
\* completed_tasks, the set execute() fills only after the gather of an
\* earlier round of the same call.
C1_DepsBeforeLaunch ==
    [][\A id \in DOMAIN status :
          (status[id] # "Running" /\ status'[id] = "Running")
          => /\ id \in DOMAIN received'
             /\ \A dep \in DepsOf(tasks, id) :
                   /\ dep \in DOMAIN results
                   /\ dep \in completed_tasks
                   /\ Len(batches) >= 2
                   /\ \A i \in 1..Len(batch) : batch[i] # dep]_vars

\* A task with dependencies is running.
C1_Witness ==
    \E id \in DOMAIN status : status[id] = "Running" /\ DepsOf(tasks, id) # {}

\* C2: with max_concurrent >= 1, never more than max_concurrent operations
\* are Running; a batch holds at most max_concurrent tasks and, while
\* execute() waits for it, every Running task belongs to it.
C2_ConcurrencyBound ==
    max_concurrent >= 1 =>
        /\ Cardinality(RunningTasks) <= max_concurrent
        /\ Len(batch) <= max_concurrent
        /\ \A i \in 1..Len(batches) : Len(batches[i]) <= max_concurrent
        /\ pc = "gather" => RunningTasks \subseteq Range(batch)

\* The limit bites: max_concurrent operations are Running while another
\* task that has no dependencies waits.
C2_Witness ==
    /\ max_concurrent >= 1
    /\ Cardinality(RunningTasks) = max_concurrent
    /\ \E id \in DOMAIN status : status[id] = "Pending" /\ DepsOf(tasks, id) = {}

\* The first execute() call on an acyclic graph whose dependency ids are all
\* declared, with max_concurrent >= 1.
C3_AcyclicGraph ==
    /\ runs = 1
    /\ pc # "idle"
    /\ max_concurrent >= 1
    /\ ~HasCycle(tasks)
    /\ AllDepsDeclared(tasks)

\* execute() returned a mapping with one entry for every declared task.
C3_ReturnedAll ==
    /\ pc = "returned"
    /\ DOMAIN returned = DeclaredIds(tasks)
    /\ \A id \in DeclaredIds(tasks) : returned[id] = OpResult(id)

\* C3: in the first execute() call on an acyclic graph whose dependency ids
\* are all declared, with max_concurrent >= 1 and every operation returning,
\* execute() never raises and ends by returning, and the mapping it returns
\* holds one entry, the operation's result, for every declared task.
C3_AcyclicRunReturns ==
    /\ [](C3_AcyclicGraph => pc # "raised")
    /\ [](C3_AcyclicGraph /\ pc = "returned" => C3_ReturnedAll)
    /\ (C3_AcyclicGraph ~> C3_ReturnedAll)

\* A graph of MaxTasks tasks with dependencies was run to the end.
C3_Witness ==
    /\ C3_AcyclicGraph
    /\ C3_ReturnedAll
    /\ Len(tasks) = MaxTasks
    /\ Len(batches) >= 2
    /\ \E id \in DeclaredIds(tasks) : DepsOf(tasks, id) # {}

\* C4 (as claimed): on a graph that contains a dependency cycle execute()
\* never returns, and the error it raises when no operation failed is of
\* kind Dependency (an instance of DependencyError).
C4_CycleRaisesDependencyError ==
    HasCycle(tasks) =>
        /\ pc # "returned"
        /\ (pc = "raised" /\ FailedTasks = {}) => IsInstance(raised, "DependencyError")

\* C5 (as claimed): when execute() has raised, the exception it raised is the
\* failure of every task whose operation failed in that call.
C5_EveryFailureRaised ==
    pc = "raised" =>
        \A id \in FailedTasks : raised \in {OpError(ty, id) : ty \in OpErrorTypes}

\* C6 (as claimed): when execute() raises, no task is still Running, and
\* self.results does not change after execute() has raised.
C6_JoinBeforeRaise ==
    [][/\ pc' = "raised" => RunningTasks' = {}
       /\ (pc = "raised" /\ pc' = "raised") => results' = results]_vars

\* A declared task that lists itself or an undeclared id as a dependency.
Unsatisfiable(ts, id) ==
    LET deps == DepsOf(ts, id) IN
    id \in deps \/ \E dep \in deps : dep \notin DeclaredIds(ts)

\* C7: once execute() is called, a task that lists itself or an undeclared
\* id as a dependency is never launched (never in a batch, never invoked,
\* never Completed), execute() never returns, and when it ends without an
\* operation having failed it ends by raising the deadlock error.
C7_UnsatisfiableNeverLaunched ==
    pc # "idle" =>
        \A id \in DeclaredIds(tasks) :
            Unsatisfiable(tasks, id) =>
                /\ status[id] = "Pending"
                /\ ~TaskOf(tasks, id).completed
                /\ id \notin DOMAIN received
                /\ id \notin DOMAIN results
                /\ \A i \in 1..Len(batches) : id \notin Range(batches[i])
                /\ pc # "returned"
                /\ (pc = "raised" /\ FailedTasks = {}) => raised = DeadlockError

\* execute() ran another task to completion, then raised the deadlock error
\* because the remaining task depends on an id that was never declared.
C7_Witness ==
    /\ pc = "raised"
    /\ raised = DeadlockError
    /\ \E id \in DeclaredIds(tasks) : ~(DepsOf(tasks, id) \subseteq DeclaredIds(tasks))
    /\ \E id \in DeclaredIds(tasks) : status[id] = "Completed"

\* C8 (as claimed): the kwargs an operation received are the task's
\* pre-declared kwargs plus, for every dependency, an entry "<dep>_result"
\* whose value is the result stored for that dependency.
C8_EveryDepResultPassed ==
    \A id \in DOMAIN received :
        LET task == TaskOf(tasks, id) IN
        /\ \A k \in DOMAIN task.kwargs : k \in DOMAIN received[id]
        /\ \A dep \in Range(task.depends_on) :
              /\ DepResultKey(dep) \in DOMAIN received[id]
              /\ received[id][DepResultKey(dep)] = results[dep]

\* C8 (amended): the kwargs an operation received are exactly the task's
\* pre-declared kwargs plus, for every dependency whose key "<dep>_result" is
\* not pre-declared, an entry under that key whose value is the result stored
\* for the dependency, the value its operation returned.
C8_DepResultsPassed ==
    \A id \in DOMAIN received :
        LET task == TaskOf(tasks, id) IN
        /\ DOMAIN received[id] =
              DOMAIN task.kwargs \cup {DepResultKey(dep) : dep \in Range(task.depends_on)}
        /\ \A k \in DOMAIN task.kwargs : received[id][k] = task.kwargs[k]
        /\ \A dep \in Range(task.depends_on) :
              DepResultKey(dep) \notin DOMAIN task.kwargs
              => /\ dep \in DOMAIN results
                 /\ received[id][DepResultKey(dep)] = results[dep]
                 /\ results[dep] = OpResult(dep)

\* An operation was invoked with a pre-declared entry and a synthesized one.
C8_Witness ==
    \E id \in DOMAIN received :
        /\ TaskOf(tasks, id).kwargs # EmptyDict
        /\ LookedUp(TaskOf(tasks, id)) # {}

\* C9: when a task pre-declares the key "<dep>_result" of one of its
\* dependencies, its operation receives the pre-declared value under that
\* key, not the dependency's result.
C9_PreDeclaredWins ==
    \A id \in DOMAIN received :
        LET task == TaskOf(tasks, id) IN
        \A dep \in Range(task.depends_on) :
            DepResultKey(dep) \in DOMAIN task.kwargs
            => /\ received[id][DepResultKey(dep)] = task.kwargs[DepResultKey(dep)]
               /\ received[id][DepResultKey(dep)] # results[dep]

\* An operation was invoked whose task pre-declares a dependency's key.
C9_Witness ==
    \E id \in DOMAIN received :
        \E dep \in DepsOf(tasks, id) :
            /\ DepResultKey(dep) \in DOMAIN TaskOf(tasks, id).kwargs
            /\ dep \in DOMAIN results

\* The graph A (no deps), B (no deps), C (deps A and B), run for the first
\* time with max_concurrent = 2, no operation having failed.
C10_Scenario ==
    /\ pc # "idle"
    /\ runs = 1
    /\ max_concurrent = 2
    /\ TaskOrder(tasks) = <<"A", "B", "C">>
    /\ DepsOf(tasks, "A") = {}
    /\ DepsOf(tasks, "B") = {}
    /\ DepsOf(tasks, "C") = {"A", "B"}
    /\ \A i \in 1..Len(tasks) : tasks[i].kwargs = EmptyDict
    /\ FailedTasks = {}

\* C10: in the scenario round 1 launches exactly A and B, round 2 exactly C,
\* C's operation receives A_result and B_result equal to the outputs of A
\* and B, and execute() returns a mapping of exactly 3 entries.
C10_ScenarioRounds ==
    C10_Scenario =>
        /\ pc # "raised"
        /\ Len(batches) <= 2
        /\ batches[1] = <<"A", "B">>
        /\ Len(batches) = 2 => batches[2] = <<"C">>
        /\ Len(batches) = 1 => status["C"] = "Pending"
        /\ Len(batches) = 2 => (status["A"] = "Completed" /\ status["B"] = "Completed")
        /\ "C" \in DOMAIN received
              => received["C"] = ("A_result" :> results["A"]) @@ ("B_result" :> results["B"])
        /\ \A id \in DOMAIN results : results[id] = OpResult(id)
        /\ pc = "returned"
              => /\ DOMAIN returned = {"A", "B", "C"}
                 /\ Cardinality(DOMAIN returned) = 3
                 /\ Len(batches) = 2
                 /\ returned = results

\* The scenario was run to the end.
C10_Witness == C10_Scenario /\ pc = "returned"

\* C11: on a graph in which every task lies on a dependency cycle (X depends
\* on Y, Y depends on X), execute() raises the deadlock error in its first
\* round: no batch is launched, no operation is invoked, no task is
\* Completed and self.results is empty.
C11_AllCyclic ==
    /\ pc # "idle"
    /\ Len(tasks) >= 1
    /\ \A i \in 1..Len(tasks) :
          tasks[i].agent_id \in ReachIn(tasks, Range(tasks[i].depends_on), Len(tasks))

C11_CycleScenarioDeadlock ==
    C11_AllCyclic =>
        /\ pc = "raised"
        /\ raised = DeadlockError
        /\ batches = <<>>
        /\ received = EmptyDict
        /\ results = EmptyDict
        /\ returned = EmptyDict
        /\ \A id \in DeclaredIds(tasks) :
              status[id] = "Pending" /\ ~TaskOf(tasks, id).completed

\* The two-task cycle was run.
C11_Witness ==
    /\ C11_AllCyclic
    /\ Len(tasks) = 2
    /\ DepsOf(tasks, IdPool[1]) = {IdPool[2]}
    /\ DepsOf(tasks, IdPool[2]) = {IdPool[1]}
    /\ pc = "raised"

\* C12: within one execute() call a task is launched at most once (only a
\* Pending task that was not invoked in this call becomes Running), and a
\* Completed task stays Completed.
C12_LaunchedOnce ==
    [][\A id \in DOMAIN status :
          /\ (status[id] # "Running" /\ status'[id] = "Running")
                => /\ status[id] = "Pending"
                   /\ id \notin DOMAIN received
                   /\ \A i \in 1..(Len(batches) - 1) : id \notin Range(batches[i])
          /\ status[id] = "Completed"
                => /\ status'[id] = "Completed"
                   /\ TaskOf(tasks', id).completed]_vars

\* A later round is running while a task of an earlier round is Completed.
C12_Witness ==
    /\ pc = "gather"
    /\ Len(batches) >= 2
    /\ RunningTasks # {}
    /\ \E id \in DOMAIN status : status[id] = "Completed" /\ id \in Range(batches[1])

\* C13: a task id is a key of self.results exactly when the task is
\* Completed (its completed flag is set); a Pending, Running or Failed task
\* has no entry; and an entry holds the value the task's operation returned,
\* so that no later write replaces it (a task with an entry is never Running).
C13_ResultsIffCompleted ==
    /\ DOMAIN results \subseteq DeclaredIds(tasks)
    /\ \A i \in 1..Len(tasks) :
          LET id == tasks[i].agent_id IN
          /\ (id \in DOMAIN results) <=> (status[id] = "Completed")
          /\ (id \in DOMAIN results) <=> tasks[i].completed
          /\ status[id] \in {"Pending", "Running", "Failed"} => id \notin DOMAIN results
          /\ id \in DOMAIN results => results[id] = OpResult(id)

\* One task is Completed, one Failed and one Running.
C13_Witness ==
    /\ \E id \in DOMAIN status : status[id] = "Completed" /\ id \in DOMAIN results
    /\ \E id \in DOMAIN status : status[id] = "Failed"
    /\ \E id \in DOMAIN status : status[id] = "Running"

\* The failure e is of a retryable kind for the configured classes: it is
\* one of them or a subclass of one of them.
InRetryableKinds(e) == \E cls \in exceptions : IsSubclass(e.type, cls)

\* C14: when func fails k times with retryable errors (k < max_attempts) and
\* then succeeds, func was invoked exactly k + 1 times and the wrapper
\* returns the value of that last invocation; after the return nothing is
\* invoked.  With max_attempts = 3, backoff_factor = 2 and two failures
\* before the success there are exactly 3 invocations.
C14_SuccessAfterRetries ==
    [][/\ (retry_pc' = "returned" /\ invocations' >= 1) =>
            LET k == Len(failures') IN
            /\ k < max_attempts'
            /\ \A i \in 1..k : \E cls \in exceptions' : IsSubclass(failures'[i].type, cls)
            /\ invocations' = k + 1
            /\ retry_returned' = FuncValue(k + 1)
            /\ (max_attempts' = 3 /\ backoff_factor' = <<2, 1>> /\ k = 2)
                  => invocations' = 3
       /\ retry_pc = "returned" =>
            /\ retry_pc' = "returned"
            /\ invocations' = invocations
            /\ retry_returned' = retry_returned]_vars

\* Two retryable failures, then the third invocation succeeded.
C14_Witness ==
    /\ retry_pc = "returned"
    /\ max_attempts = 3
    /\ backoff_factor = <<2, 1>>
    /\ Len(failures) = 2
    /\ invocations = 3
    /\ retry_returned = FuncValue(3)

\* C15: a failure whose kind is not retryable leaves the wrapper at once and
\* unchanged: it is the last invocation, no wait follows it, and this holds
\* at a later attempt as at the first.
C15_NonRetryablePropagates ==
    \A i \in 1..Len(failures) :
        ~InRetryableKinds(failures[i]) =>
            /\ i = Len(failures)
            /\ retry_pc = "raised"
            /\ retry_raised = failures[i]
            /\ invocations = i
            /\ Len(waits) = i - 1

\* A non-retryable failure at the second attempt, attempts remaining.
C15_Witness ==
    /\ Len(failures) = 2
    /\ InRetryableKinds(failures[1])
    /\ ~InRetryableKinds(failures[2])
    /\ max_attempts > 2
    /\ retry_pc = "raised"

\* C16: with max_attempts >= 1, func is never invoked more than max_attempts
\* times; when every invocation fails with a retryable error it is invoked
\* exactly max_attempts times and the wrapper raises the error of the last
\* attempt.
C16_ExhaustedRaisesLast ==
    max_attempts >= 1 =>
        /\ invocations <= max_attempts
        /\ Len(failures) = max_attempts => retry_pc = "raised"
        /\ (retry_pc = "raised" /\ \A i \in 1..Len(failures) : InRetryableKinds(failures[i]))
              => /\ invocations = max_attempts
                 /\ Len(failures) = max_attempts
                 /\ retry_raised = failures[max_attempts]
                 /\ retry_raised.message = "attempt " \o ToString(max_attempts)

\* Three retryable failures of different kinds, the last one raised.
C16_Witness ==
    /\ retry_pc = "raised"
    /\ max_attempts = 3
    /\ Len(failures) = 3
    /\ \A i \in 1..3 : InRetryableKinds(failures[i])
    /\ failures[1].type # failures[3].type

\* The first waits for backoff_factor 2 and 1.5.
C17_WaitsOfTwo == << <<1, 1>>, <<2, 1>>, <<4, 1>>, <<8, 1>>, <<16, 1>> >>
C17_WaitsOfDefault == << <<1, 1>>, <<3, 2>>, <<9, 4>>, <<27, 8>>, <<81, 16>> >>

\* C17: the first attempt is made without a wait; after the n-th retryable
\* failure with attempts remaining the wrapper waits exactly
\* backoff_factor ** (n - 1) before attempt n + 1; there is no wait after the
\* final failed attempt or after a success.
C17_BackoffSchedule ==
    /\ Len(waits) = IF retry_pc = "sleeping" THEN invocations
                    ELSE IF invocations = 0 THEN 0 ELSE invocations - 1
    /\ invocations <= 1 /\ retry_pc # "sleeping" => waits = <<>>
    /\ \A n \in 1..Len(waits) :
          /\ n < max_attempts
          /\ InRetryableKinds(failures[n])
          /\ waits[n] = RatPower(backoff_factor, n - 1)
          /\ (backoff_factor = <<2, 1>> /\ n <= 5) => waits[n] = C17_WaitsOfTwo[n]
          /\ (backoff_factor = <<3, 2>> /\ n <= 5) => waits[n] = C17_WaitsOfDefault[n]
    /\ retry_pc = "raised" => Len(waits) = Len(failures) - 1
    /\ retry_pc = "returned" => Len(waits) = Len(failures)

\* Two waits (1 and 1.5 seconds), then the final attempt failed.
C17_Witness ==
    /\ retry_pc = "raised"
    /\ backoff_factor = <<3, 2>>
    /\ waits = << <<1, 1>>, <<3, 2>> >>
    /\ Len(failures) = 3

\* C18: under the default configuration (exceptions=None) a TokenLimitError
\* or LLMTimeoutError is retried while attempts remain, and an
\* InvalidOutputError, UserInterruptError, ConfigurationError,
\* DependencyError or generic error is never retried.
C18_DefaultRetryableKinds ==
    (retry_pc # "undecorated" /\ ~exceptions_given) =>
        /\ exceptions = {"LLMTimeoutError", "TokenLimitError"}
        /\ \A i \in 1..Len(failures) :
              IF failures[i].type \in {"LLMTimeoutError", "TokenLimitError"}
              THEN /\ i < max_attempts => Len(waits) >= i
                   /\ i < max_attempts =>
                         (retry_pc = "sleeping" /\ invocations = i) \/ invocations > i
              ELSE /\ failures[i].type \in
                         {"InvalidOutputError", "UserInterruptError",
                          "ConfigurationError", "DependencyError",
                          "AgentExecutionError", "Exception"}
                   /\ i = Len(failures)
                   /\ invocations = i
                   /\ Len(waits) = i - 1
                   /\ retry_pc = "raised"
                   /\ retry_raised = failures[i]

\* Default configuration: a TokenLimitError was retried, the
\* InvalidOutputError that followed was not.
C18_Witness ==
    /\ ~exceptions_given
    /\ max_attempts = 3
    /\ Len(failures) = 2
    /\ failures[1].type = "TokenLimitError"
    /\ failures[2].type = "InvalidOutputError"
    /\ retry_pc = "raised"
    /\ invocations = 2

\* The registered classes the error is an instance of.
C19_Candidates(registry, error) ==
    {registry[i].error_type : i \in Matches(registry, error)}
\* The most specific of them.
C19_MostSpecific(registry, error) ==
    CHOOSE cls \in C19_Candidates(registry, error) :
        \A other \in C19_Candidates(registry, error) : Depth(other) <= Depth(cls)

\* C19: handle invokes the handler registered for the most specific class
\* that equals or is an ancestor of the error's class, whatever the order of
\* the registrations.
C19_MostSpecificHandler ==
    (called.op = "handle" /\ Matches(error_registry, called.error) # {}) =>
        \E i \in 1..Len(error_registry) :
            /\ error_registry[i].error_type = C19_MostSpecific(error_registry, called.error)
            /\ invoked = error_registry[i].fn

\* C20: with the default registrations fallback returns a value and neither
\* raises nor ends the process: reduce_context for TokenLimitError,
\* backoff_retry for LLMTimeoutError, simplify_request for
\* InvalidOutputError, and the generic error status for every class without
\* a registered fallback.
C20_DefaultFallbacks ==
    (called.op = "fallback" /\ fallback_registry = DefaultFallbacks) =>
        /\ handler_pc = "ready"
        /\ outcome # None
        /\ called.error.type = "TokenLimitError" =>
              outcome = [status |-> "retrying", action |-> "reduce_context"]
        /\ called.error.type = "LLMTimeoutError" =>
              outcome = [status |-> "retrying", action |-> "backoff_retry"]
        /\ called.error.type = "InvalidOutputError" =>
              outcome = [status |-> "retrying", action |-> "simplify_request"]
        /\ called.error.type \in {"UserInterruptError", "ConfigurationError",
                                  "DependencyError", "AgentExecutionError", "Exception"} =>
              outcome = [status |-> "error", message |-> called.error.message]

\* fallback was called with a UserInterruptError under the default
\* registrations.
C20_Witness ==
    /\ called.op = "fallback"
    /\ called.error.type = "UserInterruptError"
    /\ fallback_registry = DefaultFallbacks
    /\ error_registry = DefaultHandlers
    /\ invoked = "_fallback_generic"

\* C21: handle of an error that no registered class matches runs the
\* generic handler (and nothing else), returns to its caller (with None)
\* and does not end the process.
C21_UnregisteredHandledGenerically ==
    (called.op = "handle" /\ Matches(error_registry, called.error) = {}) =>
        /\ invoked = "_handle_generic"
        /\ handler_pc = "ready"
        /\ outcome = None
        /\ last_error = called.error

\* A ConfigurationError was handled with no handler registered for it nor
\* for an ancestor.
C21_Witness ==
    /\ called = [op |-> "handle", error |-> ErrorOf("ConfigurationError")]
    /\ invoked = "_handle_generic"
    /\ \A i \in 1..Len(error_registry) :
          error_registry[i].error_type \notin {"ConfigurationError", "DAIError", "Exception"}

\* C22: handle of a UserInterruptError, with the default handler registered
\* for it, ends the process: _handle_user_interrupt is the function invoked
\* (not the generic handler), handle does not return, and once the process
\* has ended no handler or fallback runs and nothing changes.
C22_UserInterruptExits ==
    [][/\ (/\ called'.op = "handle"
           /\ called'.error.type = "UserInterruptError"
           /\ \E i \in 1..Len(error_registry') :
                 error_registry'[i] = Entry("UserInterruptError", "_handle_user_interrupt"))
          => /\ handler_pc' = "exited"
             /\ invoked' = "_handle_user_interrupt"
       /\ handler_pc = "exited" => UNCHANGED handler_vars]_vars

\* The process ended in handle of a UserInterruptError.
C22_Witness ==
    /\ handler_pc = "exited"
    /\ called = [op |-> "handle", error |-> ErrorOf("UserInterruptError")]
    /\ invoked = "_handle_user_interrupt"
    /\ last_error = ErrorOf("UserInterruptError")

\* The classes registered in a registry and the function under a class.
C23_Keys(registry) == {registry[i].error_type : i \in 1..Len(registry)}
C23_FnOf(registry, cls) ==
    registry[CHOOSE i \in 1..Len(registry) : registry[i].error_type = cls].fn
\* registry2 is registry with the function of cls set to fn and nothing else
\* changed.
C23_Replaced(registry, registry2, cls, fn) ==
    /\ C23_Keys(registry2) = C23_Keys(registry) \cup {cls}
    /\ Len(registry2) = Cardinality(C23_Keys(registry2))
    /\ C23_FnOf(registry2, cls) = fn
    /\ \A other \in C23_Keys(registry) \ {cls} :
          C23_FnOf(registry2, other) = C23_FnOf(registry, other)

\* C23: a registration for class K sets K's function in that registry to the
\* one just registered, replacing a default or an earlier one, and changes
\* no other class's entry and nothing in the other registry; handle and
\* fallback change neither registry.
C23_LastRegistrationWins ==
    [][IF registrations' # registrations
       THEN \E cls \in RegisterTypes :
              \/ /\ C23_Replaced(error_registry, error_registry', cls, Custom(registrations'))
                 /\ fallback_registry' = fallback_registry
              \/ /\ C23_Replaced(fallback_registry, fallback_registry', cls, Custom(registrations'))
                 /\ error_registry' = error_registry
       ELSE UNCHANGED <<error_registry, fallback_registry>>]_vars

\* The default handler of TokenLimitError was replaced twice; the other
\* defaults are as registered.
C23_Witness ==
    /\ registrations = 2
    /\ C23_FnOf(error_registry, "TokenLimitError") = "custom_2"
    /\ C23_FnOf(error_registry, "LLMTimeoutError") = "_handle_timeout"
    /\ Len(error_registry) = Len(DefaultHandlers)
    /\ fallback_registry = DefaultFallbacks

\* C24: validate_model(provider, model) returns True exactly when the
\* provider is registered and the model is in its supported set, and False
\* (a value, not an exception) for an unknown provider or an unsupported
\* model; the cases of test_model_validation hold on the initial registry.
C24_ValidateModel ==
    [][validated' # validated =>
          LET call == validated' IN
          /\ UNCHANGED <<_providers, _supported_models>>
          /\ call.result \in BOOLEAN
          /\ call.result <=>
                /\ call.provider_name \in DOMAIN _providers
                /\ call.model \in _supported_models[call.provider_name]
          /\ call.provider_name \notin DOMAIN _providers => ~call.result
          /\ provider_registrations = 0 =>
                /\ (call.provider_name = "openai"
                      /\ call.model \in {"gpt-3.5-turbo", "gpt-4"}) => call.result
                /\ call.model = "invalid-model" => ~call.result
                /\ call.provider_name = "invalid-provider" => ~call.result]_vars

\* A registered provider was asked for a model it does not support.
C24_Witness ==
    /\ provider_registrations = 1
    /\ validated.provider_name = "anthropic"
    /\ validated.model = "gpt-4-turbo"
    /\ "anthropic" \in DOMAIN _providers
    /\ ~validated.result

\* C25: execute() raises the deadlock error only while some declared task is
\* not Completed; once every declared task is Completed a call of execute()
\* (also a repeated one, on a graph an earlier call completed) returns
\* self.results.
C25_DeadlockOnlyWhenStuck ==
    /\ (pc = "raised" /\ raised = DeadlockError) =>
          \E id \in DeclaredIds(tasks) : ~TaskOf(tasks, id).completed
    /\ (pc \in {"returned", "raised"} /\ RunningTasks = {}
          /\ \A id \in DeclaredIds(tasks) : TaskOf(tasks, id).completed) =>
          /\ pc = "returned"
          /\ returned = results

\* C26: while a round is in flight every task of the earlier rounds of the
\* call is Completed, only tasks of the current batch are Running, and the
\* batch was chosen against completed_tasks as it stood at the last barrier:
\* completed_tasks holds no task of the current batch, and a task whose
\* dependencies completed during the round is not Running.
C26_JoinBarrier ==
    pc = "gather" =>
        /\ \A i \in 1..(Len(batches) - 1) :
              \A id \in Range(batches[i]) : status[id] = "Completed"
        /\ RunningTasks \subseteq Range(batch)
        /\ completed_tasks \cap Range(batch) = {}
        /\ \A id \in Range(batch) : DepsOf(tasks, id) \subseteq completed_tasks
        /\ \A i \in 1..Len(tasks) :
              (\E dep \in Range(tasks[i].depends_on) : dep \in Range(batch))
                 => status[tasks[i].agent_id] = "Pending"

\* One task of the batch has completed, fewer than max_concurrent tasks are
\* Running, and a task depending only on the completed one still waits.
C26_Witness ==
    /\ pc = "gather"
    /\ Cardinality(RunningTasks) = 1
    /\ max_concurrent = 2
    /\ \E id \in DOMAIN status :
          /\ status[id] = "Pending"
          /\ DepsOf(tasks, id) # {}
          /\ \A dep \in DepsOf(tasks, id) :
                dep \in Range(batch) /\ dep \in DOMAIN status /\ status[dep] = "Completed"

RECURSIVE C27_Scan(_, _, _, _)
\* Walks the dependency depths of a graph: below holds the tasks of the
\* depths walked so far, the next depth is made of the tasks all of whose
\* dependencies are in below (depth 1: no dependencies).  Gives <<number of
\* distinct depths, largest number of tasks at one depth>>.
C27_Scan(ts, below, depths, width) ==
    LET level == {i \in 1..Len(ts) : /\ ts[i].agent_id \notin below
                                     /\ Range(ts[i].depends_on) \subseteq below}
        size == Cardinality(level)
    IN  IF size = 0 THEN <<depths, width>>
        ELSE C27_Scan(ts, below \cup {ts[i].agent_id : i \in level}, depths + 1,
                      IF size > width THEN size ELSE width)
\* The number of distinct depths: the length of the longest dependency chain.
C27_Depths(ts) == C27_Scan(ts, {}, 0, 0)[1]
\* The largest number of tasks at one depth.
C27_Width(ts) == C27_Scan(ts, {}, 0, 0)[2]
\* A call of execute() with max_concurrent >= 1 on an acyclic, fully declared
\* graph.
C27_AcyclicRun ==
    /\ pc # "idle"
    /\ max_concurrent >= 1
    /\ ~HasCycle(tasks)
    /\ AllDepsDeclared(tasks)

\* C27 as stated: on an acyclic graph with max_concurrent >= 1 the number of
\* rounds is at most the number of distinct dependency depths.
C27_RoundsAtMostDepths ==
    C27_AcyclicRun => Len(batches) <= C27_Depths(tasks)

\* The tasks whose completed flag was set before the current call: flagged
\* now and launched in none of its rounds.
C27_FlaggedBefore ==
    CompletedFlagged(tasks) \ UNION {Range(batches[j]) : j \in 1..Len(batches)}
\* The tasks launched in the rounds before round i of the current call.
C27_LaunchedBefore(i) == UNION {Range(batches[j]) : j \in 1..(i - 1)}
\* completed_tasks at the start of round i: empty in the first round (line
\* 111), afterwards every flagged task (lines 127-129).
C27_DoneBefore(i) ==
    IF i = 1 THEN {} ELSE C27_FlaggedBefore \cup C27_LaunchedBefore(i)
\* The ready set of round i: the tasks not flagged then, all of whose
\* dependencies were in completed_tasks.
C27_ReadyAt(i) ==
    {id \in DeclaredIds(tasks) :
        /\ id \notin C27_FlaggedBefore
        /\ id \notin C27_LaunchedBefore(i)
        /\ DepsOf(tasks, id) \subseteq C27_DoneBefore(i)}
\* No round of the current call had more ready tasks than max_concurrent.
C27_NoReadySetCut ==
    \A i \in 1..Len(batches) : Cardinality(C27_ReadyAt(i)) <= max_concurrent

\* C27, amended: in every call the number of rounds is at most the number of
\* tasks; it is at most the number of distinct dependency depths when no
\* round's ready set holds more than max_concurrent tasks, which is so in
\* the first call whenever max_concurrent is at least the number of tasks at
\* any one depth.
C27_RoundsBounded ==
    C27_AcyclicRun =>
        /\ Len(batches) <= Len(tasks)
        /\ C27_NoReadySetCut => Len(batches) <= C27_Depths(tasks)
        /\ (runs = 1 /\ max_concurrent >= C27_Width(tasks)) => C27_NoReadySetCut

\* A second call, made after a call that failed had completed a task, ran
\* the rest of a graph of two depths in two rounds, none of them cut, and
\* returned.
C27_Witness ==
    /\ C27_AcyclicRun
    /\ pc = "returned"
    /\ runs = 2
    /\ Len(tasks) = 3
    /\ C27_FlaggedBefore # {}
    /\ C27_Depths(tasks) = 2
    /\ C27_Width(tasks) = 2
    /\ C27_NoReadySetCut
    /\ Len(batches) = 2

\* C28: with max_concurrent >= 1 a round that ends without a failure adds
\* at least one task to completed_tasks and its whole batch to the Completed
\* tasks; no empty round is ever started (an empty ready set raises the
\* deadlock error instead).
C28_RoundsProgress ==
    [][max_concurrent' >= 1 =>
          /\ \A i \in 1..Len(batches') : batches'[i] # <<>>
          /\ (/\ pc = "gather"
              /\ gather_exc = NoError
              /\ pc' # "gather" \/ batches' # batches)
                => /\ batch # <<>>
                   /\ Cardinality(completed_tasks') > Cardinality(completed_tasks)
                   /\ Range(batch) \subseteq completed_tasks'
                   /\ Range(batch) \cap completed_tasks = {}
                   /\ Cardinality(DeclaredIds(tasks) \ completed_tasks')
                         < Cardinality(DeclaredIds(tasks) \ completed_tasks)]_vars

\* A first round ended and a second one was started.
C28_Witness ==
    /\ max_concurrent >= 1
    /\ pc = "gather"
    /\ Len(batches) = 2
    /\ completed_tasks = Range(batches[1])
    /\ completed_tasks # {}

\* The tasks that were ready when the current batch was chosen, in
\* declaration order: not Completed then (the tasks of the batch itself may
\* have completed since) and every dependency in completed_tasks.
C29_ReadyAtLaunch ==
    SelectSeq(TaskOrder(tasks),
              LAMBDA id : /\ ~TaskOf(tasks, id).completed \/ id \in Range(batch)
                          /\ DepsOf(tasks, id) \subseteq completed_tasks)
\* The position of an id in the order of declaration.
C29_Position(id) == CHOOSE i \in 1..Len(tasks) : tasks[i].agent_id = id

\* C29: the batch of a round is the first min(max_concurrent, |ready set|)
\* ready tasks in declaration order, a function of the declared graph, of
\* max_concurrent and of what has completed; every batch of the call is in
\* declaration order.
C29_BatchIsFirstReady ==
    pc = "gather" =>
        LET ready == C29_ReadyAtLaunch
            n == IF max_concurrent < Len(ready) THEN max_concurrent ELSE Len(ready)
        IN  /\ Len(batch) = n
            /\ \A i \in 1..n : batch[i] = ready[i]
            /\ \A r \in 1..Len(batches) :
                  \A i, j \in 1..Len(batches[r]) :
                      i < j => C29_Position(batches[r][i]) < C29_Position(batches[r][j])

\* Three tasks were ready and max_concurrent = 2: the batch is the first
\* two declared.
C29_Witness ==
    /\ pc = "gather"
    /\ max_concurrent = 2
    /\ Len(C29_ReadyAtLaunch) = 3
    /\ batch = <<IdPool[1], IdPool[2]>>

\* C30: a task whose operation failed stays Failed: it is never Pending
\* again, never launched again, and has no entry in self.results.
C30_FailedIsTerminal ==
    [][\A id \in DOMAIN status :
          status[id] = "Failed" =>
              /\ status'[id] = "Failed"
              /\ id \notin DOMAIN results'
              /\ batch' # batch => id \notin Range(batch')]_vars

\* A call of execute(max_concurrent = 0) is under way on a graph with a ready
\* task.
C36_ZeroConcurrencyRun ==
    /\ pc # "idle"
    /\ max_concurrent = 0
    /\ _get_ready_tasks(tasks, {}) # <<>>

\* No batch of the call holds a task, no operation was invoked in it, and
\* the call has neither raised nor returned.
C36_Spins ==
    /\ pc = "gather"
    /\ batch = <<>>
    /\ Len(batches) >= 1
    /\ \A i \in 1..Len(batches) : batches[i] = <<>>
    /\ received = EmptyDict
    /\ RunningTasks = {}
    /\ FailedTasks = {}
    /\ raised = NoError
    /\ returned = EmptyDict

\* C36 as stated: execute(max_concurrent = 0) on a graph with a ready task
\* stays in its loop (every batch is empty, no operation is invoked, the call
\* neither raises nor returns) and completed_tasks never grows.
C36_ZeroConcurrencySpins ==
    C36_ZeroConcurrencyRun => C36_Spins /\ completed_tasks = {}

\* C36, amended: the call stays in its loop, and completed_tasks never covers
\* the graph: it takes up the tasks an earlier call completed, and nothing
\* else.
C36_ZeroConcurrencySpinsBelowAll ==
    C36_ZeroConcurrencyRun =>
        /\ C36_Spins
        /\ Cardinality(completed_tasks) < Len(tasks)
        /\ completed_tasks \subseteq CompletedFlagged(tasks)
        /\ \A id \in completed_tasks : id \in DOMAIN results
        /\ runs = 1 => completed_tasks = {}

\* The call went round its loop again and again with a Pending ready task,
\* after an earlier call had completed another task.
C36_Witness ==
    /\ C36_ZeroConcurrencyRun
    /\ Len(batches) = MaxRounds
    /\ completed_tasks # {}
    /\ \E id \in Range(_get_ready_tasks(tasks, {})) : status[id] = "Pending"


\* A task none of whose transitive dependencies (itself included) is
\* undeclared or lies on a cycle.
C37_Sound(id) ==
    \A d \in {id} \cup TransitiveDeps(tasks, id) :
        d \in DeclaredIds(tasks) /\ d \notin TransitiveDeps(tasks, d)

\* C37: when execute() raises the deadlock error on a graph with a cycle or
\* an undeclared dependency, every task whose transitive dependencies are all
\* declared and cycle-free is Completed and its result is in self.results.
C37_DeadlockAfterAllSound ==
    (/\ pc = "raised"
     /\ raised = DeadlockError
     /\ HasCycle(tasks) \/ ~AllDepsDeclared(tasks))
        => \A id \in DeclaredIds(tasks) :
              C37_Sound(id) =>
                  /\ status[id] = "Completed"
                  /\ TaskOf(tasks, id).completed
                  /\ id \in DOMAIN results
                  /\ results[id] = OpResult(id)


\* The classes of a registry in the order of its entries.
C38_KindOrder(registry) == [i \in 1..Len(registry) |-> registry[i].error_type]
\* The function of the first entry, in that order, whose class equals or is
\* an ancestor of the error's class; the generic function when there is none.
C38_FirstRegistered(registry, error, generic) ==
    IF \E i \in 1..Len(registry) : IsSubclass(error.type, registry[i].error_type)
    THEN registry[CHOOSE i \in 1..Len(registry) :
                     /\ IsSubclass(error.type, registry[i].error_type)
                     /\ \A j \in 1..(i - 1) :
                           ~IsSubclass(error.type, registry[j].error_type)].fn
    ELSE generic
\* A registration leaves the order of the classes as it was, or puts one new
\* class behind all the others.
C38_OrderKept(registry, registry2) ==
    \/ C38_KindOrder(registry2) = C38_KindOrder(registry)
    \/ /\ Len(registry2) = Len(registry) + 1
       /\ SubSeq(C38_KindOrder(registry2), 1, Len(registry)) = C38_KindOrder(registry)
       /\ \A i \in 1..Len(registry) :
             registry[i].error_type # registry2[Len(registry2)].error_type

\* C38: handle and fallback invoke the function of the first entry of their
\* registry, in the order in which the classes were first registered, whose
\* class equals or is an ancestor of the error's class; a registration for a
\* class already registered replaces its function and keeps its position, a
\* new class goes last.
C38_FirstRegisteredWins ==
    [][IF registrations' # registrations
       THEN /\ C38_OrderKept(error_registry, error_registry')
            /\ C38_OrderKept(fallback_registry, fallback_registry')
       ELSE /\ UNCHANGED <<error_registry, fallback_registry>>
            /\ <<called, invoked, outcome, last_error, handler_pc>>'
                  # <<called, invoked, outcome, last_error, handler_pc>>
               => /\ called'.op = "handle" =>
                        invoked' = C38_FirstRegistered(error_registry, called'.error,
                                                       "_handle_generic")
                  /\ called'.op = "fallback" =>
                        invoked' = C38_FirstRegistered(fallback_registry, called'.error,
                                                       "_fallback_generic")
                  /\ called'.op \in {"handle", "fallback"}]_vars

\* LLMError was registered behind the defaults and TokenLimitError registered
\* again: handle(TokenLimitError) ran the new TokenLimitError function, still
\* the first entry, and not the LLMError one.
C38_Witness ==
    /\ called = [op |-> "handle", error |-> ErrorOf("TokenLimitError")]
    /\ error_registry[1] = Entry("TokenLimitError", invoked)
    /\ invoked \in {Custom(1), Custom(2)}
    /\ Len(error_registry) = Len(DefaultHandlers) + 1
    /\ error_registry[Len(error_registry)].error_type = "LLMError"


\* C39: a function decorated with max_attempts <= 0 is never invoked: a call
\* of the wrapper, async or sync, returns None and raises nothing.
C39_NoAttemptReturnsNone ==
    (max_attempts <= 0 /\ retry_pc \notin {"undecorated", "decorated"}) =>
        /\ retry_pc = "returned"
        /\ retry_returned = None
        /\ retry_raised = NoError
        /\ invocations = 0
        /\ attempt = 0
        /\ failures = <<>>
        /\ waits = <<>>

\* The async wrapper of a function decorated with a negative max_attempts
\* was called and has returned.
C39_Witness ==
    /\ max_attempts < 0
    /\ is_coroutine
    /\ retry_pc = "returned"
    /\ retry_returned = None


\* C40: no step of a call of execute() changes a declared task's kwargs or
\* args (nor its id or depends_on): the "<dep>_result" entries go into the
\* keyword arguments of the invocation only, and a task once declared stays
\* declared, at its place.
C40_DeclaredInputsKept ==
    [][/\ Len(tasks') >= Len(tasks)
       /\ \A i \in 1..Len(tasks) :
             /\ tasks'[i].kwargs = tasks[i].kwargs
             /\ tasks'[i].args = tasks[i].args
             /\ tasks'[i].agent_id = tasks[i].agent_id
             /\ tasks'[i].depends_on = tasks[i].depends_on]_vars

\* A call has ended by raising after a task was invoked with a synthesized
\* entry that its declared kwargs do not hold, and another task had been
\* invoked with the same and has completed.
C40_Witness ==
    /\ pc = "raised"
    /\ \E id \in DOMAIN received :
          /\ status[id] = "Failed"
          /\ DOMAIN received[id] # DOMAIN TaskOf(tasks, id).kwargs
    /\ \E id \in DOMAIN received :
          /\ status[id] = "Completed"
          /\ DOMAIN received[id] # DOMAIN TaskOf(tasks, id).kwargs


\* The graph visualize() was last called on: tasks are only ever added, and
\* their ids and depends_on never change (C40).
C34_Graph == SubSeq(tasks, 1, visualized_at)
\* The line a line of the rendering hangs under: the nearest line above it
\* that starts two spaces further left (0 when there is none).
C34_Parent(lines, i) ==
    LET above == {j \in 1..(i - 1) : lines[j].indent = lines[i].indent - 2}
    IN  IF above = {} THEN 0 ELSE CHOOSE j \in above : \A k \in above : k <= j

\* C34: visualize() terminates on every graph and names each task on at
\* most one line, even when several parents share a dependent or the graph
\* has a cycle; the top-level lines are exactly the tasks with no
\* dependencies, in declaration order, and every deeper line names a task
\* that lists the task of its parent line as a dependency.
C34_RenderedOnce ==
    visualized # NotVisualized =>
        LET lines == visualized.lines
            top == SelectSeq(lines, LAMBDA l : l.indent = 0)
        IN  /\ visualized.header = "Dependency Graph:"
            /\ Len(lines) <= Len(C34_Graph)
            /\ \A i, j \in 1..Len(lines) : i # j => lines[i].node # lines[j].node
            /\ \A i \in 1..Len(lines) : lines[i].node \in DeclaredIds(C34_Graph)
            /\ [i \in 1..Len(top) |-> top[i].node]
                  = SelectSeq(TaskOrder(C34_Graph),
                              LAMBDA id : DepsOf(C34_Graph, id) = {})
            /\ \A i \in 1..Len(lines) :
                  lines[i].indent > 0 =>
                      /\ C34_Parent(lines, i) # 0
                      /\ lines[C34_Parent(lines, i)].node
                            \in DepsOf(C34_Graph, lines[i].node)

\* Two tasks without dependencies share a dependent: it is rendered once,
\* under the first of them.
C34_Witness ==
    /\ visualized_at = 3
    /\ DepsOf(tasks, IdPool[3]) = {IdPool[1], IdPool[2]}
    /\ visualized.lines = <<Line(0, IdPool[1]), Line(1, IdPool[3]), Line(0, IdPool[2])>>

\* C35: a call of visualize() changes nothing of the executor (the tasks and
\* their completed flags, self.results, the call of execute() under way and
\* its rounds), whether it comes before, during or after a call of execute();
\* and every step that changes the executor leaves the rendering last
\* returned alone.
C35_VisualizeReadOnly ==
    [][/\ visualize_vars' # visualize_vars => UNCHANGED executor_vars
       /\ executor_vars' # executor_vars => UNCHANGED visualize_vars]_vars

\* visualize() was called on a graph of two tasks, and a call of execute()
\* on that graph has gone through two rounds and returned every result.
C35_Witness ==
    /\ pc = "returned"
    /\ Len(batches) = 2
    /\ visualized_at = Len(tasks)
    /\ visualized # NotVisualized
    /\ Len(visualized.lines) = 2
    /\ DOMAIN returned = DeclaredIds(tasks)



\* The outcomes of func in the call of the wrapper recorded in the state: the
\* exceptions it raised, in order, then the value it returned if it did.
C33_Outcomes ==
    [i \in 1..invocations |->
        IF i <= Len(failures) THEN Raises(failures[i]) ELSE Returns(FuncValue(i))]

C33_Recorded == WrapperRun(invocations, waits, retry_returned, retry_raised)

\* C33: the sync and the async wrapper are equivalent.  When a call of a
\* wrapper has ended, the other wrapper, under the same max_attempts,
\* backoff_factor and exceptions and with the same outcomes of func, makes the
\* same number of invocations, takes the same waits and ends with the same
\* returned value or raised exception: both agree with what was recorded.
C33_WrappersEquivalent ==
    retry_pc \in {"returned", "raised"} =>
        LET a == async_wrapper(max_attempts, backoff_factor, exceptions, C33_Outcomes)
            s == sync_wrapper(max_attempts, backoff_factor, exceptions, C33_Outcomes)
        IN /\ a = s
           /\ C33_Recorded = (IF is_coroutine THEN a ELSE s)
           /\ C33_Recorded = (IF is_coroutine THEN s ELSE a)

\* A call of the sync wrapper failed twice with a caught exception, slept
\* twice and returned the value of its third invocation.
C33_Witness ==
    /\ ~is_coroutine
    /\ retry_pc = "returned"
    /\ invocations = 3
    /\ Len(waits) = 2
    /\ waits[1] # waits[2]
    /\ retry_returned = FuncValue(3)



\* A coroutine of the batch other than the retrying one has work left: it has
\* not run its first step yet, or its operation is running.
C32_OthersUnfinished ==
    \/ started < Len(batch)
    \/ \E i \in 2..Len(batch) : status[batch[i]] = "Running"

\* C32: a backoff wait suspends only the retrying task.  While the wrapper,
\* sync or async, sleeps between two attempts and another coroutine of the
\* batch has work left, the event loop can run a step of another coroutine:
\* start it or resume it when its operation returns.
C32_WaitSuspendsOnlyRetryingTask ==
    (retry_pc = "sleeping" /\ pc = "gather" /\ C32_OthersUnfinished) =>
        ENABLED (LoopStartsTask \/ LoopEndsTask)

\* The same for the async wrapper alone.
C32_AsyncWaitSuspendsOnlyRetryingTask ==
    (is_coroutine /\ retry_pc = "sleeping" /\ pc = "gather" /\ C32_OthersUnfinished) =>
        ENABLED (LoopStartsTask \/ LoopEndsTask)

\* The sync wrapper sleeps between two attempts while another coroutine of the
\* batch has not run its first step.
C32_SyncWaitInBatch ==
    /\ ~is_coroutine
    /\ retry_pc = "sleeping"
    /\ pc = "gather"
    /\ started < Len(batch)



\* C31: the results mapping belongs to one call of execute().  When the calls
\* of two callers overlapped, the mapping a call returns holds no result
\* written by a coroutine of the other call.
C31_ResultStorePerCall ==
    \A c \in Callers :
        (calls[c].pc = "returned" /\ calls[c].overlapped) =>
            \A task_id \in DOMAIN calls[c].returned :
                calls[c].writers[task_id] = c

\* Both calls overlapped and returned, and the first caller was handed a
\* result the second caller's coroutine wrote.
C31_ForeignResultReturned ==
    /\ \A c \in Callers : calls[c].pc = "returned" /\ calls[c].overlapped
    /\ \E task_id \in DOMAIN calls[1].returned : calls[1].writers[task_id] = 2

====
